---------------------------- MODULE Spec2Model ----------------------------
(***************************************************************************)
(* GSPICE expression engine: the operator dispatch layer of                *)
(* gspice-utils/src/expression/op.rs and the tensor data model of          *)
(* gspice/src/expression/mod.rs.                                           *)
(*                                                                         *)
(* Numbers.  An f64 is modelled by a binary floating-point number with a   *)
(* significand of Precision bits and an unbounded exponent, written as the *)
(* rational <<n, d>> in lowest terms with d > 0.  Every arithmetic         *)
(* operation rounds its exact result to the nearest such number, ties to   *)
(* even, as IEEE 754 does.  Signed zero, overflow, underflow, infinities   *)
(* and NaN are outside the model: an operator call whose forward rule      *)
(* would leave the finite numbers (division by zero, a fractional power)   *)
(* is not taken.  On finite values OrderedFloat's total order is the usual *)
(* order.  exp is modelled on the half-integers by the exponential 4^x:    *)
(* it is positive, increasing, 1 at 0 and turns sums into products, which  *)
(* is all the sigmoid rules use.                                           *)
(*                                                                         *)
(* Graph.  op.rs sees an operand only as Const(f64) or Tensor(tensor); how *)
(* a tensor came to be (parameter or operation) is invisible to it.  The   *)
(* model therefore builds a pool of parameter tensors and applies one      *)
(* operator call to it; the node it builds is appended to the pool.        *)
(***************************************************************************)
EXTENDS Integers, Sequences, FiniteSets, TLC

\* Largest tensor length the model creates.
MaxLen == 2
\* Largest number of parameter tensors alive before the operator call.
MaxTensors == 2
\* Bits in the significand of the model's floating-point numbers.
Precision == 4

---------------------------------------------------------------------------
(* Rationals, and the rounded arithmetic standing for f64 arithmetic.      *)

RECURSIVE GCD(_, _)
GCD(a, b) == IF b = 0 THEN a ELSE GCD(b, a % b)

IAbs(n) == IF n < 0 THEN -n ELSE n

\* n/d in lowest terms, d # 0.
Q(n, d) ==
    LET g == GCD(IAbs(n), IAbs(d))
        s == IF d < 0 THEN -1 ELSE 1
    IN  <<(s * n) \div g, (s * d) \div g>>

Zero == Q(0, 1)
Half == Q(1, 2)
One == Q(1, 1)
Two == Q(2, 1)

RAdd(a, b) == Q(a[1] * b[2] + b[1] * a[2], a[2] * b[2])
RNeg(a) == <<-a[1], a[2]>>
RSub(a, b) == RAdd(a, RNeg(b))
RMul(a, b) == Q(a[1] * b[1], a[2] * b[2])
\* a / b, b # 0
RDiv(a, b) == Q(a[1] * b[2], a[2] * b[1])
RLt(a, b) == a[1] * b[2] < b[1] * a[2]
RLe(a, b) == a[1] * b[2] <= b[1] * a[2]
RAbs(a) == <<IAbs(a[1]), a[2]>>
RIsZero(a) == a[1] = 0
RIsInt(a) == a[2] = 1
\* floor of n/d with d > 0 (TLA+ \div rounds towards minus infinity)
RFloor(a) == Q(a[1] \div a[2], 1)
RCeil(a) == RNeg(RFloor(RNeg(a)))
\* f64::round: to the nearest integer, halves away from zero
RRound(a) ==
    IF a[1] >= 0 THEN RFloor(RAdd(a, Half)) ELSE RNeg(RFloor(RAdd(RNeg(a), Half)))
\* f64::signum: 1.0 for +0.0 and positive numbers, -1.0 for negative ones
RSignum(a) == IF a[1] >= 0 THEN One ELSE RNeg(One)

RECURSIVE IPow(_, _)
IPow(b, e) == IF e = 0 THEN 1 ELSE b * IPow(b, e - 1)

\* x^n for an integer rational n; x # 0 when n < 0
RPowInt(x, n) ==
    IF n[1] >= 0 THEN Q(IPow(x[1], n[1]), IPow(x[2], n[1]))
    ELSE Q(IPow(x[2], -n[1]), IPow(x[1], -n[1]))
PowDefined(x, n) == RIsInt(n) /\ (n[1] < 0 => ~RIsZero(x))

\* exp on the half-integers, modelled by 4^x = 2^(2x)
ExpDefined(x) == x[2] \in {1, 2}
RExp(x) ==
    LET m == IF x[2] = 1 THEN 2 * x[1] ELSE x[1]
    IN  IF m >= 0 THEN Q(IPow(2, m), 1) ELSE Q(1, IPow(2, -m))

\* a / d scaled by a power of two into [2^(Precision-1), 2^Precision):
\* <<a', d', e>> with a / d = (a' / d') * 2^e
RECURSIVE FlNorm(_, _, _)
FlNorm(a, d, e) ==
    IF a >= d * IPow(2, Precision) THEN FlNorm(a, 2 * d, e + 1)
    ELSE IF a < d * IPow(2, Precision - 1) THEN FlNorm(2 * a, d, e - 1)
    ELSE <<a, d, e>>

\* (-1)^neg * (nm[1] / nm[2]) * 2^nm[3] with the significand rounded to an
\* integer, ties to the even one
FlPack(neg, nm) ==
    LET s == IF neg THEN -1 ELSE 1
        q == nm[1] \div nm[2]
        r2 == 2 * (nm[1] % nm[2])
        m == IF r2 > nm[2] \/ (r2 = nm[2] /\ q % 2 = 1) THEN q + 1 ELSE q
    IN  IF nm[3] >= 0 THEN Q(s * m * IPow(2, nm[3]), 1)
        ELSE Q(s * m, IPow(2, -nm[3]))
FlRound(x) ==
    IF x[2] \in {1, 2, 4, 8} /\ IAbs(x[1]) < IPow(2, Precision)
    THEN x   \* a significand that fits: x is a floating-point number already
    ELSE CHOOSE r \in {FlPack(x[1] < 0, nm) : nm \in {FlNorm(IAbs(x[1]), x[2], 0)}} : TRUE

\* x rounded to the nearest floating-point number, ties to the even significand
\* (x is evaluated once, then rounded)
Fl(x) == CHOOSE r \in {FlRound(v) : v \in {x}} : TRUE

\* f64 +, -, *, /, powf and exp
FAdd(a, b) == Fl(RAdd(a, b))
FSub(a, b) == Fl(RSub(a, b))
FMul(a, b) == Fl(RMul(a, b))
FDiv(a, b) == Fl(RDiv(a, b))
FPowInt(x, n) == Fl(RPowInt(x, n))
FExp(x) == Fl(RExp(x))

InLogicRange(x) == RLe(Zero, x) /\ RLe(x, One)

---------------------------------------------------------------------------
(* Scalar forward rules of the operator catalog.                           *)

Powf_forward(x, n) == FPowInt(x, n)

\* Cond::forward: cond*on_true + (1-cond)*on_false
\* Cond::forward with the two branches exchanged
Cond_forward_swapped(cond, on_true, on_false) ==
    FAdd(FMul(cond, on_false), FMul(FSub(One, cond), on_true))

Cond_forward(cond, on_true, on_false) ==
    FAdd(FMul(cond, on_true), FMul(FSub(One, cond), on_false))

\* The unary kinds whose forward rule stays in the rationals.  Sin, Cos,
\* Tanh, Tan, Sqrt, Log, Exp and Erf go through the same generic dispatch
\* (Expression::unary_op<T>) and differ only in the function pointer.
UnaryKinds == {"LogicNot", "Neg", "Ceil", "Floor", "Round", "Sign", "Sqr", "Cubic", "Abs"}

Neg_forward(x) == RNeg(x)
Ceil_forward(x) == RCeil(x)
Floor_forward(x) == RFloor(x)
Round_forward(x) == RRound(x)
Sign_forward(x) == RSignum(x)
Sqr_forward(x) == FMul(x, x)
Cubic_forward(x) == FMul(FMul(x, x), x)
Abs_forward(x) == RAbs(x)
LogicNot_forward(x) == FSub(One, x)

UnaryOp_forward(kind, x) ==
    CASE kind = "Neg" -> Neg_forward(x)
      [] kind = "Ceil" -> Ceil_forward(x)
      [] kind = "Floor" -> Floor_forward(x)
      [] kind = "Round" -> Round_forward(x)
      [] kind = "Sign" -> Sign_forward(x)
      [] kind = "Sqr" -> Sqr_forward(x)
      [] kind = "Cubic" -> Cubic_forward(x)
      [] kind = "Abs" -> Abs_forward(x)
      [] kind = "LogicNot" -> LogicNot_forward(x)

\* assert_logic! inside a unary forward rule: TRUE when the debug assertion passes
UnaryLogicOk(kind, x) == kind = "LogicNot" => InLogicRange(x)

BinaryKinds == {"Add", "Sub", "Mul", "Div", "Pow", "Min", "Max", "LogicAnd", "LogicOr"}

LogicAnd_forward(lhs, rhs) == FMul(lhs, rhs)
\* logic_or as the plain sum of its operands
LogicOr_forward_sum(lhs, rhs) == FAdd(lhs, rhs)
LogicOr_forward(lhs, rhs) == FSub(FAdd(lhs, rhs), FMul(lhs, rhs))
Add_forward(lhs, rhs) == FAdd(lhs, rhs)
Sub_forward(lhs, rhs) == FSub(lhs, rhs)
Mul_forward(lhs, rhs) == FMul(lhs, rhs)
Div_forward(lhs, rhs) == FDiv(lhs, rhs)
Pow_forward(lhs, rhs) == FPowInt(lhs, rhs)
Min_forward(lhs, rhs) == IF RLt(rhs, lhs) THEN rhs ELSE lhs
Max_forward(lhs, rhs) == IF RLt(lhs, rhs) THEN rhs ELSE lhs

\* T::forward_lhs_rhs(lhs, rhs)
forward_lhs_rhs(kind, lhs, rhs) ==
    CASE kind = "Add" -> Add_forward(lhs, rhs)
      [] kind = "Sub" -> Sub_forward(lhs, rhs)
      [] kind = "Mul" -> Mul_forward(lhs, rhs)
      [] kind = "Div" -> Div_forward(lhs, rhs)
      [] kind = "Pow" -> Pow_forward(lhs, rhs)
      [] kind = "Min" -> Min_forward(lhs, rhs)
      [] kind = "Max" -> Max_forward(lhs, rhs)
      [] kind = "LogicAnd" -> LogicAnd_forward(lhs, rhs)
      [] kind = "LogicOr" -> LogicOr_forward(lhs, rhs)

\* forward_rhs_lhs that applies the formula to its parameters in the order given
forward_rhs_lhs_unswapped(kind, rhs, lhs) == forward_lhs_rhs(kind, rhs, lhs)
\* T::forward_rhs_lhs(rhs, lhs): the same formula with the parameters swapped
forward_rhs_lhs(kind, rhs, lhs) == forward_lhs_rhs(kind, lhs, rhs)

\* BinaryOp::forward: [forward_lhs_rhs, forward_rhs_lhs], selected by dir
BinaryOp_forward(kind, dir, a, b) ==
    IF dir = "lhs_rhs" THEN forward_lhs_rhs(kind, a, b) ELSE forward_rhs_lhs(kind, a, b)

\* the operand pairs on which the forward rule stays finite
BinaryDefined(kind, lhs, rhs) ==
    /\ kind = "Div" => ~RIsZero(rhs)
    /\ kind = "Pow" => PowDefined(lhs, rhs)

\* assert_logic! inside LogicAnd / LogicOr
BinaryLogicOk(kind, a, b) ==
    kind \in {"LogicAnd", "LogicOr"} => InLogicRange(a) /\ InLogicRange(b)

---------------------------------------------------------------------------
(* Comparison operators and smoothing methods.                             *)

CmpKinds == {"Eq", "Ne", "Le", "Ge", "Lt", "Gt"}

\* CmpMethod: m is the variant, p is epsilon (Linear) or k (Sigmoid)
Discret == [m |-> "Discret", p |-> Zero]
Linear(epsilon) == [m |-> "Linear", p |-> epsilon]
Sigmoid(k) == [m |-> "Sigmoid", p |-> k]

\* An f64 handed over as epsilon or k: its sign bit and its value (0.0 and -0.0
\* are one value with two sign bits)
F64(neg, v) == [neg |-> neg, v |-> v]
is_sign_positive(x) == ~x.neg

\* CmpMethod::new_sigmoid, CmpMethod::new_linear; m = "Panic" when assert! fails
CmpMethod_new_sigmoid(k) ==
    IF is_sign_positive(k) THEN Sigmoid(k.v) ELSE [m |-> "Panic", p |-> k.v]
CmpMethod_new_linear(epsilon) ==
    IF is_sign_positive(epsilon) THEN Linear(epsilon.v) ELSE [m |-> "Panic", p |-> epsilon.v]

\* CmpMethodT::DIFFERENTIABLE: false by default, true for Linear and Sigmoid
differentiable(method) == method.m \in {"Linear", "Sigmoid"}

Bit(b) == IF b THEN One ELSE Zero

CmpMethodDiscret_eq_forward(lhs, rhs) == Bit(lhs = rhs)
CmpMethodDiscret_ne_forward(lhs, rhs) == Bit(lhs # rhs)
CmpMethodDiscret_le_forward(lhs, rhs) == Bit(RLe(lhs, rhs))
CmpMethodDiscret_ge_forward(lhs, rhs) == Bit(RLe(rhs, lhs))
CmpMethodDiscret_lt_forward(lhs, rhs) == Bit(RLt(lhs, rhs))
CmpMethodDiscret_gt_forward(lhs, rhs) == Bit(RLt(rhs, lhs))

\* eq_forward decaying over twice the band
CmpMethodLinear_eq_forward_wide(epsilon, lhs, rhs) ==
    LET abs == RAbs(FSub(lhs, rhs))
    IN  IF RLt(abs, FMul(Two, epsilon)) THEN FSub(One, FDiv(abs, FMul(Two, epsilon))) ELSE Zero
CmpMethodLinear_eq_forward(epsilon, lhs, rhs) ==
    LET abs == RAbs(FSub(lhs, rhs))
    IN  IF RLt(abs, epsilon) THEN FSub(One, FDiv(abs, epsilon)) ELSE Zero
CmpMethodLinear_ne_forward(epsilon, lhs, rhs) ==
    LET abs == RAbs(FSub(lhs, rhs))
    IN  IF RLt(abs, epsilon) THEN FDiv(abs, epsilon) ELSE One
CmpMethodLinear_le_forward(epsilon, lhs, rhs) ==
    LET diff == FSub(lhs, rhs)
    IN  IF RLt(epsilon, diff) THEN Zero
        ELSE IF RLt(diff, RNeg(epsilon)) THEN One
        ELSE FSub(Half, FDiv(diff, FMul(Two, epsilon)))
CmpMethodLinear_ge_forward(epsilon, lhs, rhs) == CmpMethodLinear_le_forward(epsilon, rhs, lhs)
CmpMethodLinear_lt_forward(epsilon, lhs, rhs) == CmpMethodLinear_le_forward(epsilon, lhs, rhs)
CmpMethodLinear_gt_forward(epsilon, lhs, rhs) == CmpMethodLinear_ge_forward(epsilon, lhs, rhs)

CmpMethodSigmoid_eq_forward(k, lhs, rhs) ==
    LET diff == FSub(lhs, rhs)
    IN  FExp(FMul(FMul(RNeg(k), diff), diff))
CmpMethodSigmoid_ne_forward(k, lhs, rhs) == FSub(One, CmpMethodSigmoid_eq_forward(k, lhs, rhs))
CmpMethodSigmoid_le_forward(k, lhs, rhs) ==
    FDiv(One, FAdd(One, FExp(FMul(k, FSub(lhs, rhs)))))
CmpMethodSigmoid_ge_forward(k, lhs, rhs) == CmpMethodSigmoid_le_forward(k, rhs, lhs)
CmpMethodSigmoid_lt_forward(k, lhs, rhs) == CmpMethodSigmoid_le_forward(k, lhs, rhs)
CmpMethodSigmoid_gt_forward(k, lhs, rhs) == CmpMethodSigmoid_ge_forward(k, lhs, rhs)

CmpMethodDiscret_forward(kind, lhs, rhs) ==
    CASE kind = "Eq" -> CmpMethodDiscret_eq_forward(lhs, rhs)
      [] kind = "Ne" -> CmpMethodDiscret_ne_forward(lhs, rhs)
      [] kind = "Le" -> CmpMethodDiscret_le_forward(lhs, rhs)
      [] kind = "Ge" -> CmpMethodDiscret_ge_forward(lhs, rhs)
      [] kind = "Lt" -> CmpMethodDiscret_lt_forward(lhs, rhs)
      [] kind = "Gt" -> CmpMethodDiscret_gt_forward(lhs, rhs)
CmpMethodLinear_forward(kind, epsilon, lhs, rhs) ==
    CASE kind = "Eq" -> CmpMethodLinear_eq_forward(epsilon, lhs, rhs)
      [] kind = "Ne" -> CmpMethodLinear_ne_forward(epsilon, lhs, rhs)
      [] kind = "Le" -> CmpMethodLinear_le_forward(epsilon, lhs, rhs)
      [] kind = "Ge" -> CmpMethodLinear_ge_forward(epsilon, lhs, rhs)
      [] kind = "Lt" -> CmpMethodLinear_lt_forward(epsilon, lhs, rhs)
      [] kind = "Gt" -> CmpMethodLinear_gt_forward(epsilon, lhs, rhs)
CmpMethodSigmoid_forward(kind, k, lhs, rhs) ==
    CASE kind = "Eq" -> CmpMethodSigmoid_eq_forward(k, lhs, rhs)
      [] kind = "Ne" -> CmpMethodSigmoid_ne_forward(k, lhs, rhs)
      [] kind = "Le" -> CmpMethodSigmoid_le_forward(k, lhs, rhs)
      [] kind = "Ge" -> CmpMethodSigmoid_ge_forward(k, lhs, rhs)
      [] kind = "Lt" -> CmpMethodSigmoid_lt_forward(k, lhs, rhs)
      [] kind = "Gt" -> CmpMethodSigmoid_gt_forward(k, lhs, rhs)

\* CmpOpT::forward(cmp_method, lhs, rhs) of Eq..Gt: the method's rule for the kind
CmpOpT_forward(kind, method, lhs, rhs) ==
    CASE method.m = "Discret" -> CmpMethodDiscret_forward(kind, lhs, rhs)
      [] method.m = "Linear" -> CmpMethodLinear_forward(kind, method.p, lhs, rhs)
      [] method.m = "Sigmoid" -> CmpMethodSigmoid_forward(kind, method.p, lhs, rhs)

\* the operand pairs on which the method's rule stays in the model's numbers
CmpDefined(kind, method, lhs, rhs) ==
    CASE method.m = "Discret" -> TRUE
      [] method.m = "Linear" ->
            \/ RLt(Zero, method.p)
            \/ method.p = Zero /\ (kind \in {"Eq", "Ne"} \/ lhs # rhs)
      [] method.m = "Sigmoid" ->
            IF kind \in {"Eq", "Ne"}
            THEN ExpDefined(FMul(FMul(method.p, FSub(lhs, rhs)), FSub(lhs, rhs)))
            ELSE ExpDefined(FMul(method.p, FSub(lhs, rhs)))

---------------------------------------------------------------------------
(* Backward rules.  A rule receives the operand(s), the cached forward     *)
(* result, the upstream gradient and the accumulator (&mut f64); it is     *)
(* modelled by [sum_grad: the accumulator afterwards, log: the message     *)
(* handed to log::error!, "" when there is none].                          *)

Acc(sum_grad) == [sum_grad |-> sum_grad, log |-> ""]
NotSupported(sum_grad, name) ==
    [sum_grad |-> sum_grad, log |-> "BackwardNotSupported " \o name]

\* std::f64::consts::PI.sqrt() under 2.0: 1.1283..., to the model's precision
FRAC_2_SQRT_PI == Fl(Q(9, 8))

Neg_backward(x, res_, grad, sum_grad) == Acc(FSub(sum_grad, grad))
Tanh_backward(x, res_, grad, sum_grad) ==
    LET minus_dtanh == FSub(FMul(res_, res_), One)
    IN  Acc(FSub(sum_grad, FMul(grad, minus_dtanh)))
Tan_backward(x, res_, grad, sum_grad) ==
    LET dtan == FAdd(FMul(res_, res_), One)
    IN  Acc(FSub(sum_grad, FMul(grad, dtan)))
\* Ceil::backward with the statement its source keeps commented out
Ceil_backward_passes(x, res_, grad, sum_grad) == NotSupported(FAdd(sum_grad, grad), "Ceil")
Ceil_backward(x, res_, grad, sum_grad) == NotSupported(sum_grad, "Ceil")
Floor_backward(x, res_, grad, sum_grad) == NotSupported(sum_grad, "Floor")
Round_backward(x, res_, grad, sum_grad) == NotSupported(sum_grad, "Round")
Sign_backward(x, res_, grad, sum_grad) == NotSupported(sum_grad, "Sign")
Sqr_backward(x, res_, grad, sum_grad) == Acc(FAdd(sum_grad, FMul(FMul(grad, Two), x)))
Cubic_backward(x, res_, grad, sum_grad) ==
    Acc(FAdd(sum_grad, FMul(FMul(FMul(grad, Q(3, 1)), x), x)))
\* x.is_sign_positive(): +0.0 counts as positive
Abs_backward(x, res_, grad, sum_grad) ==
    IF x[1] >= 0 THEN Acc(FAdd(sum_grad, grad)) ELSE Acc(FSub(sum_grad, grad))
LogicNot_backward(x, res_, grad, sum_grad) ==
    LET erf_grad == FMul(FRAC_2_SQRT_PI, FExp(FMul(RNeg(x), x)))
    IN  Acc(FAdd(sum_grad, FMul(grad, erf_grad)))

\* The kinds whose backward rule stays in the model's numbers.  Tan and Tanh
\* read only the cached result, so they are modelled although tan and tanh
\* themselves are not.
UnaryBackwardKinds == UnaryKinds \cup {"Tan", "Tanh"}

\* UnaryOp::backward
UnaryOp_backward(kind, x, res_, grad, sum_grad) ==
    CASE kind = "Neg" -> Neg_backward(x, res_, grad, sum_grad)
      [] kind = "Tanh" -> Tanh_backward(x, res_, grad, sum_grad)
      [] kind = "Tan" -> Tan_backward(x, res_, grad, sum_grad)
      [] kind = "Ceil" -> Ceil_backward(x, res_, grad, sum_grad)
      [] kind = "Floor" -> Floor_backward(x, res_, grad, sum_grad)
      [] kind = "Round" -> Round_backward(x, res_, grad, sum_grad)
      [] kind = "Sign" -> Sign_backward(x, res_, grad, sum_grad)
      [] kind = "Sqr" -> Sqr_backward(x, res_, grad, sum_grad)
      [] kind = "Cubic" -> Cubic_backward(x, res_, grad, sum_grad)
      [] kind = "Abs" -> Abs_backward(x, res_, grad, sum_grad)
      [] kind = "LogicNot" -> LogicNot_backward(x, res_, grad, sum_grad)

UnaryBackwardDefined(kind, x) == kind = "LogicNot" => ExpDefined(FMul(RNeg(x), x))

\* A binary kind has two rules, backward_lhs and backward_rhs, each with its
\* own accumulator; a definition below gives both, as BinaryOp::backward does.
Both(lhs_sum_grad, rhs_sum_grad) == [lhs |-> lhs_sum_grad, rhs |-> rhs_sum_grad]

LogicAnd_backward(lhs, rhs, res_, grad, lhs_sum_grad, rhs_sum_grad) ==
    Both(FAdd(lhs_sum_grad, FMul(grad, rhs)), FAdd(rhs_sum_grad, FMul(grad, lhs)))
LogicOr_backward(lhs, rhs, res_, grad, lhs_sum_grad, rhs_sum_grad) ==
    Both(FAdd(lhs_sum_grad, FMul(grad, FSub(One, rhs))),
         FAdd(rhs_sum_grad, FMul(grad, FSub(One, lhs))))
Add_backward(lhs, rhs, res_, grad, lhs_sum_grad, rhs_sum_grad) ==
    Both(FAdd(lhs_sum_grad, grad), FAdd(rhs_sum_grad, grad))
Sub_backward(lhs, rhs, res_, grad, lhs_sum_grad, rhs_sum_grad) ==
    Both(FAdd(lhs_sum_grad, grad), FSub(rhs_sum_grad, grad))
Mul_backward(lhs, rhs, res_, grad, lhs_sum_grad, rhs_sum_grad) ==
    Both(FAdd(lhs_sum_grad, FMul(grad, rhs)), FAdd(rhs_sum_grad, FMul(grad, lhs)))
Div_backward(lhs, rhs, res_, grad, lhs_sum_grad, rhs_sum_grad) ==
    Both(FAdd(lhs_sum_grad, FDiv(grad, rhs)),
         FSub(rhs_sum_grad, FDiv(FMul(grad, lhs), FMul(rhs, rhs))))
\* OrderedFloat(own).cmp(&OrderedFloat(other)), the arm that adds grad being
\* Less for Min and Greater for Max; Equal adds grad / 2.0
Routed(wins, own, other, grad, sum_grad) ==
    IF own = other THEN FAdd(sum_grad, FDiv(grad, Two))
    ELSE IF wins THEN FAdd(sum_grad, grad)
    ELSE sum_grad
\* Min's rules without the Equal arm: a tie counts for both operands
Min_backward_full(lhs, rhs, res_, grad, lhs_sum_grad, rhs_sum_grad) ==
    Both(IF RLe(lhs, rhs) THEN FAdd(lhs_sum_grad, grad) ELSE lhs_sum_grad,
         IF RLe(rhs, lhs) THEN FAdd(rhs_sum_grad, grad) ELSE rhs_sum_grad)
Min_backward(lhs, rhs, res_, grad, lhs_sum_grad, rhs_sum_grad) ==
    Both(Routed(RLt(lhs, rhs), lhs, rhs, grad, lhs_sum_grad),
         Routed(RLt(rhs, lhs), rhs, lhs, grad, rhs_sum_grad))
Max_backward(lhs, rhs, res_, grad, lhs_sum_grad, rhs_sum_grad) ==
    Both(Routed(RLt(rhs, lhs), lhs, rhs, grad, lhs_sum_grad),
         Routed(RLt(lhs, rhs), rhs, lhs, grad, rhs_sum_grad))

\* The binary kinds whose backward rules stay in the model's numbers
\* (Pow::backward_rhs takes a logarithm).
BinaryBackwardKinds == BinaryKinds \ {"Pow"}

\* BinaryOp::backward
BinaryOp_backward(kind, lhs, rhs, res_, grad, lhs_sum_grad, rhs_sum_grad) ==
    CASE kind = "Add" -> Add_backward(lhs, rhs, res_, grad, lhs_sum_grad, rhs_sum_grad)
      [] kind = "Sub" -> Sub_backward(lhs, rhs, res_, grad, lhs_sum_grad, rhs_sum_grad)
      [] kind = "Mul" -> Mul_backward(lhs, rhs, res_, grad, lhs_sum_grad, rhs_sum_grad)
      [] kind = "Div" -> Div_backward(lhs, rhs, res_, grad, lhs_sum_grad, rhs_sum_grad)
      [] kind = "Min" -> Min_backward(lhs, rhs, res_, grad, lhs_sum_grad, rhs_sum_grad)
      [] kind = "Max" -> Max_backward(lhs, rhs, res_, grad, lhs_sum_grad, rhs_sum_grad)
      [] kind = "LogicAnd" ->
            LogicAnd_backward(lhs, rhs, res_, grad, lhs_sum_grad, rhs_sum_grad)
      [] kind = "LogicOr" ->
            LogicOr_backward(lhs, rhs, res_, grad, lhs_sum_grad, rhs_sum_grad)

\* Powf::backward assigning where the source adds
Powf_backward_assign(x, n, res_, grad, sum_grad) ==
    FMul(FMul(grad, n), FPowInt(x, RSub(n, One)))
\* Powf::backward
Powf_backward(x, n, res_, grad, sum_grad) ==
    FAdd(sum_grad, FMul(FMul(grad, n), FPowInt(x, RSub(n, One))))

\* Cond's rules with backward_on_false weighting by cond, as backward_on_true does
Cond_backward_unblended(which, cond, on_true, on_false, grad, sum_grad) ==
    IF which = "cond" THEN FAdd(sum_grad, FMul(grad, FSub(on_true, on_false)))
    ELSE FAdd(sum_grad, FMul(cond, grad))
\* Cond::backward_cond, backward_on_true, backward_on_false: which names the rule,
\* sum_grad is the one accumulator it is handed
Cond_backward(which, cond, on_true, on_false, grad, sum_grad) ==
    CASE which = "cond" -> FAdd(sum_grad, FMul(grad, FSub(on_true, on_false)))
      [] which = "on_true" -> FAdd(sum_grad, FMul(cond, grad))
      [] which = "on_false" -> FAdd(sum_grad, FMul(FSub(One, cond), grad))

\* CmpMethodLinear's backward rules; ge and gt go through le's rule of the
\* other side, lt through le's own
CmpMethodLinear_backward(kind, side, epsilon, lhs, rhs, res_, grad, sum_grad) ==
    LET eq_c == FDiv(FMul(grad, RSignum(FSub(lhs, rhs))), epsilon)
        le_c == FDiv(grad, FMul(Two, epsilon))
        in_band == RLe(RAbs(FSub(lhs, rhs)), epsilon)
    IN  CASE kind = "Eq" ->
                IF RIsZero(res_) THEN sum_grad
                ELSE IF side = "lhs" THEN FSub(sum_grad, eq_c) ELSE FAdd(sum_grad, eq_c)
          [] kind = "Ne" ->
                IF res_ = One THEN sum_grad
                ELSE IF side = "lhs" THEN FAdd(sum_grad, eq_c) ELSE FSub(sum_grad, eq_c)
          [] kind \in {"Le", "Lt"} ->
                IF ~in_band THEN sum_grad
                ELSE IF side = "lhs" THEN FSub(sum_grad, le_c) ELSE FAdd(sum_grad, le_c)
          [] kind \in {"Ge", "Gt"} ->
                IF ~in_band THEN sum_grad
                ELSE IF side = "lhs" THEN FAdd(sum_grad, le_c) ELSE FSub(sum_grad, le_c)

\* CmpMethodSigmoid's backward rules; ne goes through eq's rule of the other
\* side, ge and gt through le's rule of the other side
CmpMethodSigmoid_backward(kind, side, k, lhs, rhs, res_, grad, sum_grad) ==
    LET diff == FSub(lhs, rhs)
        kdiff == FMul(k, diff)
        eq_c == FMul(FMul(FMul(grad, Two), kdiff), FExp(FMul(RNeg(kdiff), diff)))
        sigma == FDiv(One, FAdd(One, FExp(FMul(k, diff))))
        le_c == FMul(FMul(FMul(grad, k), sigma), FSub(One, sigma))
    IN  CASE kind = "Eq" -> IF side = "lhs" THEN FSub(sum_grad, eq_c) ELSE FAdd(sum_grad, eq_c)
          [] kind = "Ne" -> IF side = "lhs" THEN FAdd(sum_grad, eq_c) ELSE FSub(sum_grad, eq_c)
          [] kind \in {"Le", "Lt"} ->
                IF side = "lhs" THEN FSub(sum_grad, le_c) ELSE FAdd(sum_grad, le_c)
          [] kind \in {"Ge", "Gt"} ->
                IF side = "lhs" THEN FAdd(sum_grad, le_c) ELSE FSub(sum_grad, le_c)

\* the backward rule of a comparison under a method; CmpMethodT's default
\* bodies, which CmpMethodDiscret keeps, do nothing
CmpMethod_backward(kind, side, method, lhs, rhs, res_, grad, sum_grad) ==
    CASE method.m = "Discret" -> sum_grad
      [] method.m = "Linear" ->
            CmpMethodLinear_backward(kind, side, method.p, lhs, rhs, res_, grad, sum_grad)
      [] method.m = "Sigmoid" ->
            CmpMethodSigmoid_backward(kind, side, method.p, lhs, rhs, res_, grad, sum_grad)

\* A use site of a variable: the rule that serves it and the rule's inputs.
\* Backward applies the site's rule to the variable's accumulator.
UnarySite(kind, x, res_, grad) ==
    [m |-> "Unary", kind |-> kind, x |-> x, res |-> res_, grad |-> grad]
PowfSite(x, n, grad) ==
    [m |-> "Powf", x |-> x, n |-> n, res |-> Powf_forward(x, n), grad |-> grad]
BinarySite(kind, side, lhs, rhs, grad) ==
    [m |-> "Binary", kind |-> kind, side |-> side, lhs |-> lhs, rhs |-> rhs,
     res |-> BinaryOp_forward(kind, "lhs_rhs", lhs, rhs), grad |-> grad]
CmpSite(kind, side, method, lhs, rhs, grad) ==
    [m |-> "Cmp", kind |-> kind, side |-> side, method |-> method, lhs |-> lhs, rhs |-> rhs,
     res |-> CmpOpT_forward(kind, method, lhs, rhs), grad |-> grad]
CondSite(which, cond, on_true, on_false, grad) ==
    [m |-> "Cond", which |-> which, cond |-> cond, on_true |-> on_true,
     on_false |-> on_false, grad |-> grad]

Backward(site, sum_grad) ==
    CASE site.m = "Unary" ->
            UnaryOp_backward(site.kind, site.x, site.res, site.grad, sum_grad).sum_grad
      [] site.m = "Powf" -> Powf_backward(site.x, site.n, site.res, site.grad, sum_grad)
      [] site.m = "Binary" ->
            BinaryOp_backward(site.kind, site.lhs, site.rhs, site.res, site.grad,
                              sum_grad, sum_grad)[site.side]
      [] site.m = "Cmp" ->
            CmpMethod_backward(site.kind, site.side, site.method, site.lhs, site.rhs,
                               site.res, site.grad, sum_grad)
      [] site.m = "Cond" ->
            Cond_backward(site.which, site.cond, site.on_true, site.on_false, site.grad,
                          sum_grad)

---------------------------------------------------------------------------
(* Data model: Tensor, Expression, Op.                                     *)

\* tensors: every live tensor, in creation order; a tensor is
\*   [grad: 0 for None or a GradId, vals: the buffer, changed: the change
\*    marker, op: the Op recorded by Tensor::new]
\* nextGradId: the next identity GradId::new() hands out
\* call: the operator call made, with the state it was made in
\* res: what that call returned
\* probe: the six comparison forward rules evaluated on one pair of scalars
VARIABLES tensors, nextGradId, call, res, probe, updates, conc

vars == <<tensors, nextGradId, call, res, probe, updates, conc>>

\* Expression::Const(v) and Expression::Tensor(tensors[t])
Const(v) == [k |-> "Const", v |-> v, t |-> 0]
TensorExpr(t) == [k |-> "Tensor", v |-> Zero, t |-> t]

\* Op
OpRec(fam, kind, method, n, args) ==
    [fam |-> fam, kind |-> kind, method |-> method, n |-> n, args |-> args]
Op_Assgin == OpRec("Assgin", "", Discret, Zero, <<>>)
Op_Powf(x, n) == OpRec("Powf", "", Discret, n, <<x>>)
Op_Cond(cond, on_true, on_false) == OpRec("Cond", "", Discret, Zero, <<cond, on_true, on_false>>)
Op_Unary(x, kind) == OpRec("Unary", kind, Discret, Zero, <<x>>)
Op_Binary(lhs, rhs, kind) == OpRec("Binary", kind, Discret, Zero, <<lhs, rhs>>)
Op_Cmp(lhs, rhs, kind, method) == OpRec("Cmp", kind, method, Zero, <<lhs, rhs>>)

TensorRec(grad, vals, op) == [grad |-> grad, vals |-> vals, changed |-> FALSE, op |-> op]

\* ChangeMarker::mark_searched_change: "mark changed" of the invalidation layer
mark_searched_change(tensor) == [tensor EXCEPT !.changed = TRUE]

\* Tensor::with_grad
with_grad(tensor) == tensor.grad # 0

\* what the body of an operator call evaluates to:
\*   Const: Expression::Const(v);  Share: Expression::Tensor(tensors[t].clone());
\*   Node: Expression::Tensor(Tensor::new(grad, vals, op));  Panic: the call unwinds.
\* mint is the number of GradId::new() calls evaluated on the way.
OutConst(v) ==
    [k |-> "Const", v |-> v, t |-> 0, grad |-> 0, vals |-> <<>>, op |-> Op_Assgin,
     why |-> "", mint |-> 0]
\* a tensor handed back as a new tensor holding a copy of its buffer
OutShare_copied(t) ==
    [k |-> "Node", v |-> Zero, t |-> 0, grad |-> tensors[t].grad, vals |-> tensors[t].vals,
     op |-> Op_Assgin, why |-> "", mint |-> 0]
OutShare(t) ==
    [k |-> "Share", v |-> Zero, t |-> t, grad |-> 0, vals |-> <<>>, op |-> Op_Assgin,
     why |-> "", mint |-> 0]
OutNode(grad, vals, op, mint) ==
    [k |-> "Node", v |-> Zero, t |-> 0, grad |-> grad, vals |-> vals, op |-> op,
     why |-> "", mint |-> mint]
OutPanic(why, mint) ==
    [k |-> "Panic", v |-> Zero, t |-> 0, grad |-> 0, vals |-> <<>>, op |-> Op_Assgin,
     why |-> why, mint |-> mint]

\* the Vec<f64> an iter_* helper collects, or the panic that ends it
IterOk(vals) == [why |-> "ok", vals |-> vals]
IterPanic(why) == [why |-> why, vals |-> <<>>]

\* Tensor::new(grad_id, values, op); its arguments are evaluated left to right,
\* so the identity is minted before the values are computed
Tensor_new(grad_id, iter, op, mint) ==
    IF iter.why = "ok" THEN OutNode(grad_id, iter.vals, op, mint)
    ELSE OutPanic(iter.why, mint)

\* if need { Some(GradId::new()) } else { None }
GradIf(need, nid) == IF need THEN nid ELSE 0
MintIf(need) == IF need THEN 1 ELSE 0

IMin(a, b) == IF a < b THEN a ELSE b

---------------------------------------------------------------------------
(* Unary dispatch.  dbg: the build has debug assertions (assert_logic!).   *)

Tensor_iter_unary_op(self, kind, dbg) ==
    IF dbg /\ \E i \in DOMAIN self.vals : ~UnaryLogicOk(kind, self.vals[i])
    THEN IterPanic("logic")
    ELSE IterOk([i \in DOMAIN self.vals |-> UnaryOp_forward(kind, self.vals[i])])

Tensor_unary_op(self, kind, op, nid, dbg) ==
    Tensor_new(GradIf(with_grad(self), nid), Tensor_iter_unary_op(self, kind, dbg), op,
               MintIf(with_grad(self)))

\* unary_op that wraps a Const operand into a one-element node
Expression_unary_op_boxed(ts, nid, dbg, kind, x) ==
    IF x.k = "Const"
    THEN OutNode(0, <<UnaryOp_forward(kind, x.v)>>, Op_Unary(x, kind), 0)
    ELSE Tensor_unary_op(ts[x.t], kind, Op_Unary(x, kind), nid, dbg)

Expression_unary_op(ts, nid, dbg, kind, x) ==
    IF x.k = "Const"
    THEN IF dbg /\ ~UnaryLogicOk(kind, x.v) THEN OutPanic("logic", 0)
         ELSE OutConst(UnaryOp_forward(kind, x.v))
    ELSE Tensor_unary_op(ts[x.t], kind, Op_Unary(x, kind), nid, dbg)

---------------------------------------------------------------------------
(* Binary dispatch.  A forward function pointer is [f, kind, dir]:         *)
(* Powf::forward, or T::forward_lhs_rhs / T::forward_rhs_lhs of a kind.    *)

FnPowf == [f |-> "Powf", kind |-> "", dir |-> "lhs_rhs"]
FnBinary(kind, dir) == [f |-> "Binary", kind |-> kind, dir |-> dir]

Apply2(fn, a, b) ==
    IF fn.f = "Powf" THEN Powf_forward(a, b) ELSE BinaryOp_forward(fn.kind, fn.dir, a, b)
Logic2Ok(fn, a, b) == fn.f = "Binary" => BinaryLogicOk(fn.kind, a, b)

\* iter_binary_op without its assert_eq! on the lengths: izip! over the two sides
Tensor_iter_binary_op_zip(self, rhs, fn, dbg) ==
    LET n == IMin(Len(self.vals), Len(rhs.vals))
    IN  IF dbg /\ \E i \in 1..n : ~Logic2Ok(fn, self.vals[i], rhs.vals[i])
        THEN IterPanic("logic")
        ELSE IterOk([i \in 1..n |-> Apply2(fn, self.vals[i], rhs.vals[i])])

Tensor_iter_binary_op(self, rhs, fn, dbg) ==
    IF Len(rhs.vals) # Len(self.vals) THEN IterPanic("shape")
    ELSE IF dbg /\ \E i \in DOMAIN self.vals : ~Logic2Ok(fn, self.vals[i], rhs.vals[i])
    THEN IterPanic("logic")
    ELSE IterOk([i \in DOMAIN self.vals |-> Apply2(fn, self.vals[i], rhs.vals[i])])

Tensor_broadcast_iter_binary_op(self, rhs, fn, dbg) ==
    IF dbg /\ \E i \in DOMAIN self.vals : ~Logic2Ok(fn, self.vals[i], rhs)
    THEN IterPanic("logic")
    ELSE IterOk([i \in DOMAIN self.vals |-> Apply2(fn, self.vals[i], rhs)])

\* binary_op that asks both sides to track gradients
Tensor_binary_op_both(self, rhs, fn, op, nid, dbg) ==
    Tensor_new(GradIf(with_grad(self) /\ with_grad(rhs), nid),
               Tensor_iter_binary_op(self, rhs, fn, dbg), op,
               MintIf(with_grad(self) /\ with_grad(rhs)))

Tensor_binary_op(self, rhs, fn, op, nid, dbg) ==
    Tensor_new(GradIf(with_grad(self) \/ with_grad(rhs), nid),
               Tensor_iter_binary_op(self, rhs, fn, dbg), op,
               MintIf(with_grad(self) \/ with_grad(rhs)))

Tensor_broadcast_binary_op(self, rhs, fn, op, nid, dbg) ==
    Tensor_new(GradIf(with_grad(self), nid),
               Tensor_broadcast_iter_binary_op(self, rhs, fn, dbg), op,
               MintIf(with_grad(self)))

Expression_powf(ts, nid, dbg, x, n) ==
    IF x.k = "Const" THEN OutConst(Powf_forward(x.v, n))
    ELSE Tensor_broadcast_binary_op(ts[x.t], n, FnPowf, Op_Powf(x, n), nid, dbg)

Expression_binary_op(ts, nid, dbg, kind, lhs, rhs) ==
    CASE lhs.k = "Const" /\ rhs.k = "Const" ->
            IF dbg /\ ~BinaryLogicOk(kind, lhs.v, rhs.v) THEN OutPanic("logic", 0)
            ELSE OutConst(forward_lhs_rhs(kind, lhs.v, rhs.v))
      [] lhs.k = "Const" /\ rhs.k = "Tensor" ->
            Tensor_broadcast_binary_op(ts[rhs.t], lhs.v, FnBinary(kind, "rhs_lhs"),
                                       Op_Binary(lhs, rhs, kind), nid, dbg)
      [] lhs.k = "Tensor" /\ rhs.k = "Const" ->
            Tensor_broadcast_binary_op(ts[lhs.t], rhs.v, FnBinary(kind, "lhs_rhs"),
                                       Op_Binary(lhs, rhs, kind), nid, dbg)
      [] lhs.k = "Tensor" /\ rhs.k = "Tensor" ->
            Tensor_binary_op(ts[lhs.t], ts[rhs.t], FnBinary(kind, "lhs_rhs"),
                             Op_Binary(lhs, rhs, kind), nid, dbg)

\* the element pairs a binary or powf call feeds to its forward rule stay finite
PowfInModel(ts, x, n) ==
    IF x.k = "Const" THEN PowDefined(x.v, n)
    ELSE \A i \in DOMAIN ts[x.t].vals : PowDefined(ts[x.t].vals[i], n)
ElemAt(ts, x, i) == IF x.k = "Const" THEN x.v ELSE ts[x.t].vals[i]
LenOf(ts, x) == Len(ts[x.t].vals)
BinaryInModel(ts, kind, lhs, rhs) ==
    CASE lhs.k = "Const" /\ rhs.k = "Const" -> BinaryDefined(kind, lhs.v, rhs.v)
      [] lhs.k = "Const" /\ rhs.k = "Tensor" ->
            \A i \in 1..LenOf(ts, rhs) : BinaryDefined(kind, lhs.v, ElemAt(ts, rhs, i))
      [] lhs.k = "Tensor" /\ rhs.k = "Const" ->
            \A i \in 1..LenOf(ts, lhs) : BinaryDefined(kind, ElemAt(ts, lhs, i), rhs.v)
      [] lhs.k = "Tensor" /\ rhs.k = "Tensor" ->
            \A i \in 1..IMin(LenOf(ts, lhs), LenOf(ts, rhs)) :
                BinaryDefined(kind, ElemAt(ts, lhs, i), ElemAt(ts, rhs, i))

---------------------------------------------------------------------------
(* Comparison dispatch.                                                    *)

\* izip!(lhs.iter(), rhs.iter()): the pairs, as many as the shorter side has
izip(lhs_vals, rhs_vals) ==
    [i \in 1..IMin(Len(lhs_vals), Len(rhs_vals)) |-> <<lhs_vals[i], rhs_vals[i]>>]

\* CmpOpT::forward_iter / forward_iter_fix_lhs / forward_iter_fix_rhs of Eq..Gt:
\* the method's rule applied to every item the iterator yields
CmpOpT_forward_iter(kind, method, iter) ==
    [i \in DOMAIN iter |-> CmpOpT_forward(kind, method, iter[i][1], iter[i][2])]
CmpOpT_forward_iter_fix_lhs(kind, method, lhs, rhs_vals) ==
    [i \in DOMAIN rhs_vals |-> CmpOpT_forward(kind, method, lhs, rhs_vals[i])]
CmpOpT_forward_iter_fix_rhs(kind, method, rhs, lhs_vals) ==
    [i \in DOMAIN lhs_vals |-> CmpOpT_forward(kind, method, lhs_vals[i], rhs)]

\* the requested method used whatever the operands are
CmpActivate_always(cmp_method, tracking) == cmp_method

\* let (grad_id, cmp_method) = if cmp_method.differentiable() && <tracking> {..} else {..}
CmpActivate(cmp_method, tracking) ==
    IF differentiable(cmp_method) /\ tracking THEN cmp_method ELSE Discret

\* cmp_op recording in the Op the method the caller asked for
Expression_cmp_op_requested(ts, nid, kind, cmp_method, lhs, rhs) ==
    CASE lhs.k = "Const" /\ rhs.k = "Const" ->
            OutConst(CmpOpT_forward(kind, Discret, lhs.v, rhs.v))
      [] lhs.k = "Const" /\ rhs.k = "Tensor" ->
            LET need == differentiable(cmp_method) /\ with_grad(ts[rhs.t])
                used == CmpActivate(cmp_method, with_grad(ts[rhs.t]))
            IN  OutNode(GradIf(need, nid),
                        CmpOpT_forward_iter_fix_lhs(kind, used, lhs.v, ts[rhs.t].vals),
                        Op_Cmp(lhs, rhs, kind, cmp_method), MintIf(need))
      [] lhs.k = "Tensor" /\ rhs.k = "Const" ->
            LET need == differentiable(cmp_method) /\ with_grad(ts[lhs.t])
                used == CmpActivate(cmp_method, with_grad(ts[lhs.t]))
            IN  OutNode(GradIf(need, nid),
                        CmpOpT_forward_iter_fix_rhs(kind, used, rhs.v, ts[lhs.t].vals),
                        Op_Cmp(lhs, rhs, kind, cmp_method), MintIf(need))
      [] lhs.k = "Tensor" /\ rhs.k = "Tensor" ->
            LET tracking == with_grad(ts[lhs.t]) \/ with_grad(ts[rhs.t])
                need == differentiable(cmp_method) /\ tracking
                used == CmpActivate(cmp_method, tracking)
            IN  OutNode(GradIf(need, nid),
                        CmpOpT_forward_iter(kind, used, izip(ts[lhs.t].vals, ts[rhs.t].vals)),
                        Op_Cmp(lhs, rhs, kind, cmp_method), MintIf(need))

\* Expression::cmp_op
Expression_cmp_op(ts, nid, kind, cmp_method, lhs, rhs) ==
    CASE lhs.k = "Const" /\ rhs.k = "Const" ->
            OutConst(CmpOpT_forward(kind, Discret, lhs.v, rhs.v))
      [] lhs.k = "Const" /\ rhs.k = "Tensor" ->
            LET need == differentiable(cmp_method) /\ with_grad(ts[rhs.t])
                used == CmpActivate(cmp_method, with_grad(ts[rhs.t]))
            IN  OutNode(GradIf(need, nid),
                        CmpOpT_forward_iter_fix_lhs(kind, used, lhs.v, ts[rhs.t].vals),
                        Op_Cmp(lhs, rhs, kind, used), MintIf(need))
      [] lhs.k = "Tensor" /\ rhs.k = "Const" ->
            LET need == differentiable(cmp_method) /\ with_grad(ts[lhs.t])
                used == CmpActivate(cmp_method, with_grad(ts[lhs.t]))
            IN  OutNode(GradIf(need, nid),
                        CmpOpT_forward_iter_fix_rhs(kind, used, rhs.v, ts[lhs.t].vals),
                        Op_Cmp(lhs, rhs, kind, used), MintIf(need))
      [] lhs.k = "Tensor" /\ rhs.k = "Tensor" ->
            LET tracking == with_grad(ts[lhs.t]) \/ with_grad(ts[rhs.t])
                need == differentiable(cmp_method) /\ tracking
                used == CmpActivate(cmp_method, tracking)
            IN  OutNode(GradIf(need, nid),
                        CmpOpT_forward_iter(kind, used, izip(ts[lhs.t].vals, ts[rhs.t].vals)),
                        Op_Cmp(lhs, rhs, kind, used), MintIf(need))

\* the method the call ends up using stays in the model's numbers on every pair it is fed
CmpInModel(ts, kind, cmp_method, lhs, rhs) ==
    CASE lhs.k = "Const" /\ rhs.k = "Const" -> TRUE
      [] lhs.k = "Const" /\ rhs.k = "Tensor" ->
            \A i \in 1..LenOf(ts, rhs) :
                CmpDefined(kind, CmpActivate(cmp_method, with_grad(ts[rhs.t])),
                           lhs.v, ElemAt(ts, rhs, i))
      [] lhs.k = "Tensor" /\ rhs.k = "Const" ->
            \A i \in 1..LenOf(ts, lhs) :
                CmpDefined(kind, CmpActivate(cmp_method, with_grad(ts[lhs.t])),
                           ElemAt(ts, lhs, i), rhs.v)
      [] lhs.k = "Tensor" /\ rhs.k = "Tensor" ->
            \A i \in 1..IMin(LenOf(ts, lhs), LenOf(ts, rhs)) :
                CmpDefined(kind,
                           CmpActivate(cmp_method, with_grad(ts[lhs.t]) \/ with_grad(ts[rhs.t])),
                           ElemAt(ts, lhs, i), ElemAt(ts, rhs, i))

---------------------------------------------------------------------------
(* Conditional dispatch.  izip! stops at the shortest of its iterators.    *)

\* Cond::forward over the items of an iterator; assert_logic!(cond) in debug builds
CondCollect(n, c, a, b, dbg) ==
    IF dbg /\ \E i \in 1..n : ~InLogicRange(c[i]) THEN IterPanic("logic")
    ELSE IterOk([i \in 1..n |-> Cond_forward(c[i], a[i], b[i])])

Fill(n, x) == [i \in 1..n |-> x]

Cond_iter_tensor_x_x(cond_tensor, on_true_x, on_false_x, dbg) ==
    LET n == Len(cond_tensor.vals)
    IN  CondCollect(n, cond_tensor.vals, Fill(n, on_true_x), Fill(n, on_false_x), dbg)
Cond_iter_tensor_x_tensor(cond_tensor, on_true_x, on_false_tensor, dbg) ==
    LET n == IMin(Len(cond_tensor.vals), Len(on_false_tensor.vals))
    IN  CondCollect(n, cond_tensor.vals, Fill(n, on_true_x), on_false_tensor.vals, dbg)
Cond_iter_tensor_tensor_x(cond_tensor, on_true_tensor, on_false_x, dbg) ==
    LET n == IMin(Len(cond_tensor.vals), Len(on_true_tensor.vals))
    IN  CondCollect(n, cond_tensor.vals, on_true_tensor.vals, Fill(n, on_false_x), dbg)
Cond_iter_tensor_tensor_tensor(cond_tensor, on_true_tensor, on_false_tensor, dbg) ==
    LET n == IMin(Len(cond_tensor.vals),
                  IMin(Len(on_true_tensor.vals), Len(on_false_tensor.vals)))
    IN  CondCollect(n, cond_tensor.vals, on_true_tensor.vals, on_false_tensor.vals, dbg)

Expression_cond(ts, nid, dbg, cond, on_true, on_false) ==
    CASE cond.k = "Const" /\ on_true.k = "Const" /\ on_false.k = "Const" ->
            IF dbg /\ ~InLogicRange(cond.v) THEN OutPanic("logic", 0)
            ELSE OutConst(Cond_forward(cond.v, on_true.v, on_false.v))
      [] cond.k = "Const" /\ on_true.k = "Const" /\ on_false.k = "Tensor" ->
            IF RIsZero(cond.v) THEN OutShare(on_false.t) ELSE OutConst(on_true.v)
      [] cond.k = "Const" /\ on_true.k = "Tensor" /\ on_false.k = "Const" ->
            IF RIsZero(cond.v) THEN OutConst(on_false.v) ELSE OutShare(on_true.t)
      [] cond.k = "Const" /\ on_true.k = "Tensor" /\ on_false.k = "Tensor" ->
            IF RIsZero(cond.v) THEN OutShare(on_false.t) ELSE OutShare(on_true.t)
      [] cond.k = "Tensor" /\ on_true.k = "Const" /\ on_false.k = "Const" ->
            LET need == with_grad(ts[cond.t])
            IN  Tensor_new(GradIf(need, nid),
                           Cond_iter_tensor_x_x(ts[cond.t], on_true.v, on_false.v, dbg),
                           Op_Cond(cond, on_true, on_false), MintIf(need))
      [] cond.k = "Tensor" /\ on_true.k = "Const" /\ on_false.k = "Tensor" ->
            LET need == with_grad(ts[cond.t]) \/ with_grad(ts[on_false.t])
            IN  Tensor_new(GradIf(need, nid),
                           Cond_iter_tensor_x_tensor(ts[cond.t], on_true.v, ts[on_false.t], dbg),
                           Op_Cond(cond, on_true, on_false), MintIf(need))
      [] cond.k = "Tensor" /\ on_true.k = "Tensor" /\ on_false.k = "Const" ->
            LET need == with_grad(ts[cond.t]) \/ with_grad(ts[on_true.t])
            IN  Tensor_new(GradIf(need, nid),
                           Cond_iter_tensor_tensor_x(ts[cond.t], ts[on_true.t], on_false.v, dbg),
                           Op_Cond(cond, on_true, on_false), MintIf(need))
      [] cond.k = "Tensor" /\ on_true.k = "Tensor" /\ on_false.k = "Tensor" ->
            LET need == with_grad(ts[cond.t]) \/ with_grad(ts[on_true.t])
                            \/ with_grad(ts[on_false.t])
            IN  Tensor_new(GradIf(need, nid),
                           Cond_iter_tensor_tensor_tensor(ts[cond.t], ts[on_true.t],
                                                          ts[on_false.t], dbg),
                           Op_Cond(cond, on_true, on_false), MintIf(need))

---------------------------------------------------------------------------
(* The program: parameters are created, then an operator is called.        *)

\* Inputs.  Buffers: all 0.0, all 1.0, and 0.5, 2.0, 0.5, ...
Zeros(n) == [i \in 1..n |-> Zero]
Ones(n) == [i \in 1..n |-> One]
Mixed(n) == [i \in 1..n |-> IF i % 2 = 1 THEN Half ELSE Two]
ParamInputs == UNION {{Zeros(n), Ones(n), Mixed(n)} : n \in 1..MaxLen}
ConstInputs == {Zero, Half, One}
PowfInputs == {Two, RNeg(One)}
MethodInputs == {Discret, Linear(One), Sigmoid(One)}

\* the operands a call can be given in the current state
Operands == {Const(v) : v \in ConstInputs} \cup {TensorExpr(t) : t \in 1..Len(tensors)}

NoCall ==
    [fam |-> "None", kind |-> "", method |-> Discret, n |-> Zero, args |-> <<>>,
     pre |-> <<>>, preId |-> 0]
CallRec(fam, kind, method, n, args) ==
    [fam |-> fam, kind |-> kind, method |-> method, n |-> n, args |-> args,
     pre |-> tensors, preId |-> nextGradId]

\* res.k: "None" before the call; "Const" (v); "Tensor" (tensors[t]; node says
\* whether the call built it); "Panic" (why)
NoRes == [k |-> "None", v |-> Zero, t |-> 0, node |-> FALSE, why |-> ""]

\* no thread is running
NoConc == [rd |-> <<>>, wr |-> <<>>, lock |-> <<>>]

NoProbe == [m |-> "None", method |-> Discret, lhs |-> Zero, rhs |-> Zero, out |-> <<>>]

Init ==
    /\ tensors = <<>>
    /\ nextGradId = 1
    /\ call = NoCall
    /\ res = NoRes
    /\ probe = NoProbe
    /\ updates = <<>>
    /\ conc = NoConc

\* Operator calls address their operands by position, so the order in which the
\* parameters were created does not matter to them: the model creates them in
\* one canonical order (by length, then contents, then need_grad).
VecCode(values) == IF values[1] = Zero THEN 0 ELSE IF values[1] = One THEN 1 ELSE 2
ParamRank(values, need_grad) == (Len(values) * 3 + VecCode(values)) * 2 + MintIf(need_grad)
InCreationOrder(values, need_grad) ==
    IF tensors = <<>> THEN TRUE
    ELSE ParamRank(tensors[Len(tensors)].vals, with_grad(tensors[Len(tensors)]))
             <= ParamRank(values, need_grad)

\* Expression::parameter(values, need_grad)
Parameter(values, need_grad) ==
    /\ call.fam = "None"
    /\ Len(tensors) < MaxTensors
    /\ InCreationOrder(values, need_grad)
    /\ tensors' = Append(tensors, TensorRec(GradIf(need_grad, nextGradId), values, Op_Assgin))
    /\ nextGradId' = nextGradId + MintIf(need_grad)
    /\ UNCHANGED <<call, res, probe, updates, conc>>

\* Return that marks the change marker of the tensors the call was given
Return_marking(out, rec) ==
    /\ call.fam = "None"
    /\ call' = rec
    /\ nextGradId' = nextGradId + out.mint
    /\ tensors' = [t \in 1..(Len(tensors) + (IF out.k = "Node" THEN 1 ELSE 0)) |->
                       IF t > Len(tensors) THEN TensorRec(out.grad, out.vals, out.op)
                       ELSE IF \E i \in DOMAIN rec.args : rec.args[i] = TensorExpr(t)
                            THEN mark_searched_change(tensors[t])
                            ELSE tensors[t]]
    /\ res' = CASE out.k = "Const" -> [NoRes EXCEPT !.k = "Const", !.v = out.v]
                [] out.k = "Share" -> [NoRes EXCEPT !.k = "Tensor", !.t = out.t]
                [] out.k = "Node" ->
                      [NoRes EXCEPT !.k = "Tensor", !.t = Len(tensors) + 1, !.node = TRUE]
                [] out.k = "Panic" -> [NoRes EXCEPT !.k = "Panic", !.why = out.why]
    /\ UNCHANGED <<probe, updates, conc>>
\* the caller's state after an operator call that evaluated to out
Return(out, rec) ==
    /\ call.fam = "None"
    /\ call' = rec
    /\ nextGradId' = nextGradId + out.mint
    /\ tensors' = IF out.k = "Node"
                  THEN Append(tensors, TensorRec(out.grad, out.vals, out.op))
                  ELSE tensors
    /\ res' = CASE out.k = "Const" -> [NoRes EXCEPT !.k = "Const", !.v = out.v]
                [] out.k = "Share" -> [NoRes EXCEPT !.k = "Tensor", !.t = out.t]
                [] out.k = "Node" ->
                      [NoRes EXCEPT !.k = "Tensor", !.t = Len(tensors) + 1, !.node = TRUE]
                [] out.k = "Panic" -> [NoRes EXCEPT !.k = "Panic", !.why = out.why]
    /\ UNCHANGED <<probe, updates, conc>>

\* neg, ceil, floor, round, sign, sqr, cubic, abs, logic_not
UnaryOp(kind, x, dbg) ==
    Return(Expression_unary_op(tensors, nextGradId, dbg, kind, x),
           CallRec("Unary", kind, Discret, Zero, <<x>>))

\* powf(n)
Powf(x, n, dbg) ==
    /\ PowfInModel(tensors, x, n)
    /\ Return(Expression_powf(tensors, nextGradId, dbg, x, n),
              CallRec("Powf", "", Discret, n, <<x>>))

\* add, sub, mul, div, pow, min, max, logic_and, logic_or
BinaryOp(kind, lhs, rhs, dbg) ==
    /\ BinaryInModel(tensors, kind, lhs, rhs)
    /\ Return(Expression_binary_op(tensors, nextGradId, dbg, kind, lhs, rhs),
              CallRec("Binary", kind, Discret, Zero, <<lhs, rhs>>))

\* eq, ne, le, ge, lt, gt and their _linear(epsilon) and _sigmoid(k) forms
CmpOp(kind, cmp_method, lhs, rhs) ==
    /\ CmpInModel(tensors, kind, cmp_method, lhs, rhs)
    /\ Return(Expression_cmp_op(tensors, nextGradId, kind, cmp_method, lhs, rhs),
              CallRec("Cmp", kind, cmp_method, Zero, <<lhs, rhs>>))

\* cond.cond(on_true, on_false)
Cond(cond, on_true, on_false, dbg) ==
    Return(Expression_cond(tensors, nextGradId, dbg, cond, on_true, on_false),
           CallRec("Cond", "", Discret, Zero, <<cond, on_true, on_false>>))

\* no operator call has been made yet
Idle == call.fam = "None"

Next ==
    \/ Idle /\ \E values \in ParamInputs, need_grad \in BOOLEAN : Parameter(values, need_grad)
    \/ Idle /\ \E kind \in UnaryKinds, x \in Operands, dbg \in BOOLEAN : UnaryOp(kind, x, dbg)
    \/ Idle /\ \E x \in Operands, n \in PowfInputs, dbg \in BOOLEAN : Powf(x, n, dbg)
    \/ Idle /\ \E kind \in BinaryKinds, lhs \in Operands, rhs \in Operands, dbg \in BOOLEAN :
            BinaryOp(kind, lhs, rhs, dbg)
    \/ Idle /\ \E kind \in CmpKinds, cmp_method \in MethodInputs, lhs \in Operands,
                  rhs \in Operands :
            CmpOp(kind, cmp_method, lhs, rhs)
    \/ Idle /\ \E cond \in Operands, on_true \in Operands, on_false \in Operands,
                  dbg \in BOOLEAN :
            Cond(cond, on_true, on_false, dbg)

Spec == Init /\ [][Next]_vars

(* Parameters and Tensor::update.  A tensor is held by the handle and by the *)
(* Expression::Parameter that Expression::parameter returns together: both  *)
(* are clones of one Arc, tensors[t] in the model.  updates is the log of    *)
(* the updates made.                                                        *)
MaxUpdates == 1
\* new contents: one element, and as many as a buffer can have
UpdateInputs == {Ones(1), Mixed(MaxLen)}

\* Expression::value: the tensor an expression holds
Expression_value(ts, x) == ts[x.t]

\* Tensor::update without the call of mark_searched_change
Update_unmarked(t, values) ==
    /\ Len(updates) < MaxUpdates
    /\ tensors' = [tensors EXCEPT ![t].vals = values]
    /\ updates' = Append(updates, [t |-> t, values |-> values])
    /\ UNCHANGED <<nextGradId, call, res, probe, conc>>
\* Tensor::update(values) through a holder of tensors[t]: under the write lock
\* the buffer is replaced, then the change marker is marked
Update(t, values) ==
    /\ Len(updates) < MaxUpdates
    /\ tensors' = [tensors EXCEPT ![t] = mark_searched_change([@ EXCEPT !.vals = values])]
    /\ updates' = Append(updates, [t |-> t, values |-> values])
    /\ UNCHANGED <<nextGradId, call, res, probe, conc>>

NextUpdate ==
    \/ \E values \in ParamInputs, need_grad \in BOOLEAN : Parameter(values, need_grad)
    \/ \E t \in DOMAIN tensors, values \in UpdateInputs : Update(t, values)

SpecUpdate == Init /\ [][NextUpdate]_vars

(* Updates after an operator call: parameters are created, one unary or one  *)
(* Const-cond call is made, then tensors are updated through their holders:   *)
(* the handle of a parameter, or the &Tensor that Expression::value hands out *)
(* for any expression, the call's result included.                            *)
NextCallUpdate ==
    \/ Idle /\ \E values \in ParamInputs, need_grad \in BOOLEAN : Parameter(values, need_grad)
    \/ Idle /\ \E kind \in {"Neg", "Sqr"}, x \in Operands : UnaryOp(kind, x, FALSE)
    \/ Idle /\ \E cond \in {Const(v) : v \in ConstInputs}, on_true \in Operands,
                  on_false \in Operands, dbg \in BOOLEAN :
            Cond(cond, on_true, on_false, dbg)
    \/ ~Idle /\ \E t \in DOMAIN tensors, values \in UpdateInputs : Update(t, values)

SpecCallUpdate == Init /\ [][NextCallUpdate]_vars

(* One forward pass running concurrently with Tensor::update, a step at a   *)
(* time.  conc.lock[t] is the RwLock of tensors[t] (readers: read guards     *)
(* alive, writer: a write guard alive); conc.rd is the thread inside          *)
(* iter_unary_op or iter_binary_op; conc.wr[t] is the thread inside           *)
(* tensors[t].update.  The pass is neg over a, or sub over a and b, which may *)
(* be one tensor.                                                             *)
ConcTensors ==
    <<TensorRec(0, Zeros(MaxLen), Op_Assgin), TensorRec(0, Ones(MaxLen), Op_Assgin)>>

InitConc ==
    /\ tensors = ConcTensors
    /\ nextGradId = 1
    /\ call = NoCall
    /\ res = NoRes
    /\ probe = NoProbe
    /\ updates = <<>>
    /\ conc = [rd |-> [pc |-> "idle", fam |-> "", a |-> 0, b |-> 0, out |-> <<>>],
               wr |-> [t \in DOMAIN ConcTensors |-> "idle"],
               lock |-> [t \in DOMAIN ConcTensors |-> [readers |-> 0, writer |-> FALSE]]]

\* RwLock::read with its guard dropped before the iteration
RwLock_read_dropped(lock, t) == lock
\* RwLock::read succeeding (no write guard alive), and the read guard's drop
RwLock_read(lock, t) == [lock EXCEPT ![t].readers = @ + 1]
RwLock_read_drop(lock, t) == [lock EXCEPT ![t].readers = @ - 1]
CanRead(t) == ~conc.lock[t].writer
\* RwLock::write succeeds when no guard is alive
CanWrite(t) == ~conc.lock[t].writer /\ conc.lock[t].readers = 0

ConcFrame == UNCHANGED <<nextGradId, call, res, probe>>

\* a thread enters a.iter_unary_op(Neg::forward) or a.iter_binary_op(b, Sub::forward)
RdStart(fam, a, b) ==
    /\ conc.rd.pc = "idle"
    /\ fam = "Unary" => b = a
    /\ conc' = [conc EXCEPT !.rd = [pc |-> "read_self", fam |-> fam, a |-> a, b |-> b,
                                    out |-> <<>>]]
    /\ UNCHANGED <<tensors, updates>> /\ ConcFrame

\* self.values().read().unwrap()
RdReadSelf ==
    /\ conc.rd.pc = "read_self"
    /\ CanRead(conc.rd.a)
    /\ conc' = [conc EXCEPT !.lock = RwLock_read(@, conc.rd.a),
                            !.rd.pc = IF conc.rd.fam = "Binary" THEN "read_rhs" ELSE "iter"]
    /\ UNCHANGED <<tensors, updates>> /\ ConcFrame

\* rhs.values().read().unwrap(), then assert_eq! on the lengths; the panic
\* unwinds through both guards
RdReadRhs ==
    /\ conc.rd.pc = "read_rhs"
    /\ CanRead(conc.rd.b)
    /\ IF Len(tensors[conc.rd.a].vals) = Len(tensors[conc.rd.b].vals)
       THEN conc' = [conc EXCEPT !.lock = RwLock_read(@, conc.rd.b), !.rd.pc = "iter"]
       ELSE conc' = [conc EXCEPT !.lock = RwLock_read_drop(@, conc.rd.a),
                                 !.rd.pc = "panic"]
    /\ UNCHANGED <<tensors, updates>> /\ ConcFrame

\* one element of .iter().map(forward) / .iter().zip(..).map(forward)
RdIter ==
    /\ conc.rd.pc = "iter"
    /\ Len(conc.rd.out) < Len(tensors[conc.rd.a].vals)
    /\ LET i == Len(conc.rd.out) + 1
           y == IF conc.rd.fam = "Unary" THEN Neg_forward(tensors[conc.rd.a].vals[i])
                ELSE Sub_forward(tensors[conc.rd.a].vals[i], tensors[conc.rd.b].vals[i])
       IN  conc' = [conc EXCEPT !.rd.out = Append(@, y)]
    /\ UNCHANGED <<tensors, updates>> /\ ConcFrame

\* .collect(): the iteration is over and the guards are dropped
RdCollect ==
    /\ conc.rd.pc = "iter"
    /\ Len(conc.rd.out) = Len(tensors[conc.rd.a].vals)
    /\ conc' = [conc EXCEPT
                    !.lock = IF conc.rd.fam = "Binary"
                             THEN RwLock_read_drop(RwLock_read_drop(@, conc.rd.b), conc.rd.a)
                             ELSE RwLock_read_drop(@, conc.rd.a),
                    !.rd.pc = "done"]
    /\ UNCHANGED <<tensors, updates>> /\ ConcFrame

\* Tensor::update: let mut write = self.values().write().unwrap();
UpdWrite(t) ==
    /\ conc.wr[t] = "idle"
    /\ Cardinality({k \in DOMAIN updates : updates[k].t = t}) < MaxUpdates
    /\ CanWrite(t)
    /\ conc' = [conc EXCEPT !.lock[t].writer = TRUE, !.wr[t] = "locked"]
    /\ UNCHANGED <<tensors, updates>> /\ ConcFrame

\* *write = values; in a block of its own, the write guard dropped at its end
UpdAssign_released(t, values) ==
    /\ conc.wr[t] = "locked"
    /\ tensors' = [tensors EXCEPT ![t].vals = values]
    /\ updates' = Append(updates, [t |-> t, values |-> values])
    /\ conc' = [conc EXCEPT !.lock[t].writer = FALSE, !.wr[t] = "assigned"]
    /\ ConcFrame
\* *write = values;
UpdAssign(t, values) ==
    /\ conc.wr[t] = "locked"
    /\ tensors' = [tensors EXCEPT ![t].vals = values]
    /\ updates' = Append(updates, [t |-> t, values |-> values])
    /\ conc' = [conc EXCEPT !.wr[t] = "assigned"]
    /\ ConcFrame

\* self.change_marker().mark_searched_change();
UpdMark(t) ==
    /\ conc.wr[t] = "assigned"
    /\ tensors' = [tensors EXCEPT ![t] = mark_searched_change(@)]
    /\ conc' = [conc EXCEPT !.wr[t] = "marked"]
    /\ UNCHANGED updates /\ ConcFrame

\* the function returns and the write guard is dropped
UpdReturn(t) ==
    /\ conc.wr[t] = "marked"
    /\ conc' = [conc EXCEPT !.lock[t].writer = FALSE, !.wr[t] = "idle"]
    /\ UNCHANGED <<tensors, updates>> /\ ConcFrame

NextConc ==
    \/ \E fam \in {"Unary", "Binary"}, a \in DOMAIN ConcTensors, b \in DOMAIN ConcTensors :
            RdStart(fam, a, b)
    \/ RdReadSelf
    \/ RdReadRhs
    \/ RdIter
    \/ RdCollect
    \/ \E t \in DOMAIN ConcTensors : UpdWrite(t)
    \/ \E t \in DOMAIN ConcTensors, values \in UpdateInputs : UpdAssign(t, values)
    \/ \E t \in DOMAIN ConcTensors : UpdMark(t)
    \/ \E t \in DOMAIN ConcTensors : UpdReturn(t)

SpecConc == InitConc /\ [][NextConc]_vars

(* Blocking.  Two threads each make one operator call and one thread per      *)
(* tensor calls update, under the RwLock as std documents it: the priority    *)
(* policy is the platform's, and a writer waiting in write() "might or might  *)
(* not block concurrent calls to read".  conc.writers_first is that choice of *)
(* the build; conc.rds[r] is the thread inside iter_unary_op or              *)
(* iter_binary_op, conc.wr[t] the thread inside tensors[t].update, "waiting"  *)
(* once it has called write().                                                *)
Readers == 1..2

InitLive ==
    /\ tensors = ConcTensors
    /\ nextGradId = 1
    /\ call = NoCall
    /\ res = NoRes
    /\ probe = NoProbe
    /\ updates = <<>>
    /\ \E writers_first \in BOOLEAN :
           conc = [writers_first |-> writers_first,
                   rds |-> [r \in Readers |-> [pc |-> "idle", fam |-> "", a |-> 0, b |-> 0]],
                   wr |-> [t \in DOMAIN ConcTensors |-> "idle"],
                   lock |-> [t \in DOMAIN ConcTensors |-> [readers |-> 0, writer |-> FALSE]]]

\* RwLock::read returns: no write guard is alive and, where the platform
\* queues readers behind writers, no writer waits
ReadGranted(t) == CanRead(t) /\ (conc.writers_first => conc.wr[t] # "waiting")

\* thread r enters a.iter_unary_op(forward) or a.iter_binary_op(b, forward)
LiveStart(r, fam, a, b) ==
    /\ conc.rds[r].pc = "idle"
    /\ fam = "Unary" => b = a
    /\ conc' = [conc EXCEPT !.rds[r] = [pc |-> "read_self", fam |-> fam, a |-> a, b |-> b]]
    /\ UNCHANGED <<tensors, updates>> /\ ConcFrame

\* self.values().read().unwrap()
LiveReadSelf(r) ==
    /\ conc.rds[r].pc = "read_self"
    /\ ReadGranted(conc.rds[r].a)
    /\ conc' = [conc EXCEPT !.lock = RwLock_read(@, conc.rds[r].a),
                            !.rds[r].pc = IF conc.rds[r].fam = "Binary" THEN "read_rhs"
                                          ELSE "iter"]
    /\ UNCHANGED <<tensors, updates>> /\ ConcFrame

\* rhs.values().read().unwrap(), then assert_eq! on the lengths; the panic
\* unwinds through both guards
LiveReadRhs(r) ==
    /\ conc.rds[r].pc = "read_rhs"
    /\ ReadGranted(conc.rds[r].b)
    /\ IF Len(tensors[conc.rds[r].a].vals) = Len(tensors[conc.rds[r].b].vals)
       THEN conc' = [conc EXCEPT !.lock = RwLock_read(@, conc.rds[r].b), !.rds[r].pc = "iter"]
       ELSE conc' = [conc EXCEPT !.lock = RwLock_read_drop(@, conc.rds[r].a),
                                 !.rds[r].pc = "panic"]
    /\ UNCHANGED <<tensors, updates>> /\ ConcFrame

\* .iter()..map(forward).collect(): the iteration takes no lock; at its end the
\* guards are dropped
LiveCollect(r) ==
    /\ conc.rds[r].pc = "iter"
    /\ conc' = [conc EXCEPT
                    !.lock = IF conc.rds[r].fam = "Binary"
                             THEN RwLock_read_drop(RwLock_read_drop(@, conc.rds[r].b),
                                                   conc.rds[r].a)
                             ELSE RwLock_read_drop(@, conc.rds[r].a),
                    !.rds[r].pc = "done"]
    /\ UNCHANGED <<tensors, updates>> /\ ConcFrame

\* Tensor::update is called: the thread enters self.values().write()
LiveUpdCall(t) ==
    /\ conc.wr[t] = "idle"
    /\ Cardinality({k \in DOMAIN updates : updates[k].t = t}) < MaxUpdates
    /\ conc' = [conc EXCEPT !.wr[t] = "waiting"]
    /\ UNCHANGED <<tensors, updates>> /\ ConcFrame

\* write() returns: no guard is alive
LiveUpdWrite(t) ==
    /\ conc.wr[t] = "waiting"
    /\ CanWrite(t)
    /\ conc' = [conc EXCEPT !.lock[t].writer = TRUE, !.wr[t] = "locked"]
    /\ UNCHANGED <<tensors, updates>> /\ ConcFrame

\* the steps that end a call once it has been made
LiveProgress ==
    \/ \E r \in Readers : LiveReadSelf(r)
    \/ \E r \in Readers : LiveReadRhs(r)
    \/ \E r \in Readers : LiveCollect(r)
    \/ \E t \in DOMAIN ConcTensors : LiveUpdWrite(t)
    \/ \E t \in DOMAIN ConcTensors, values \in UpdateInputs : UpdAssign(t, values)
    \/ \E t \in DOMAIN ConcTensors : UpdMark(t)
    \/ \E t \in DOMAIN ConcTensors : UpdReturn(t)

NextLive ==
    \/ \E r \in Readers, fam \in {"Unary", "Binary"}, a \in DOMAIN ConcTensors,
          b \in DOMAIN ConcTensors :
            LiveStart(r, fam, a, b)
    \/ \E t \in DOMAIN ConcTensors : LiveUpdCall(t)
    \/ LiveProgress

\* a running thread is scheduled again and again: a call that can take its next
\* step does not wait forever
SpecLive == InitLive /\ [][NextLive]_vars /\ WF_vars(LiveProgress)

---------------------------------------------------------------------------
(* The comparison forward rules as pure functions: every rule of one       *)
(* method applied to the same pair of scalars.                             *)

\* no pure function has been applied yet
Unprobed == probe.m = "None"

ProbeVals == {Zero, Half, One, Q(3, 2), Two}
ProbeMethods ==
    {Discret} \cup {Linear(e) : e \in {Half, One, Q(3, 2), Two}} \cup {Sigmoid(k) : k \in {One, Two}}

CmpForward(method, lhs, rhs) ==
    /\ probe.m = "None"
    /\ \A kind \in CmpKinds : CmpDefined(kind, method, lhs, rhs)
    /\ probe' = [m |-> "Cmp", method |-> method, lhs |-> lhs, rhs |-> rhs,
                 out |-> [kind \in CmpKinds |-> CmpOpT_forward(kind, method, lhs, rhs)]]
    /\ UNCHANGED <<tensors, nextGradId, call, res, updates, conc>>

\* epsilon and k as a caller can pass them: 0.0, -0.0, positive, negative
ProbeParams == {F64(FALSE, Zero), F64(TRUE, Zero), F64(FALSE, Half), F64(FALSE, One),
                F64(TRUE, RNeg(Half)), F64(TRUE, RNeg(One))}

\* a.<kind>_linear(b, p) / a.<kind>_sigmoid(b, p) seen at one pair of elements of
\* gradient-tracking operands: the method is built from p, then every kind's
\* rule is applied where it stays in the model's numbers
CmpSmoothed(new, p, lhs, rhs) ==
    /\ probe.m = "None"
    /\ LET method == IF new = "new_linear" THEN CmpMethod_new_linear(p)
                      ELSE CmpMethod_new_sigmoid(p)
       IN  probe' = [m |-> "Smoothed", new |-> new, p |-> p, lhs |-> lhs, rhs |-> rhs,
                     method |-> method,
                     out |-> IF method.m = "Panic" THEN <<>>
                             ELSE [kind \in {c \in CmpKinds : CmpDefined(c, method, lhs, rhs)}
                                       |-> CmpOpT_forward(kind, method, lhs, rhs)]]
    /\ UNCHANGED <<tensors, nextGradId, call, res, updates, conc>>

NextCmp ==
    \/ Unprobed /\ \E method \in ProbeMethods, lhs \in ProbeVals, rhs \in ProbeVals :
            CmpForward(method, lhs, rhs)
    \/ Unprobed /\ \E new \in {"new_linear", "new_sigmoid"}, p \in ProbeParams, lhs \in ProbeVals,
          rhs \in ProbeVals :
            CmpSmoothed(new, p, lhs, rhs)

SpecCmp == Init /\ [][NextCmp]_vars

(* The backward rules as pure functions: one application of UnaryOp::backward *)
(* or of both halves of BinaryOp::backward per behaviour, recorded in probe.  *)
(* res is the cached forward result of the operand(s); for Tan and Tanh it    *)
(* is drawn, the rule reading nothing else.                                   *)
BackwardVals == {Q(-1, 1), Zero, Half, One, Two}
GradVals == {Q(-1, 1), Half, One, Q(3, 2)}
AccVals == {Q(-1, 1), Zero, Half}

UnaryBackward(kind, x, res_, grad, sum_grad) ==
    /\ probe.m = "None"
    /\ UnaryBackwardDefined(kind, x)
    /\ IF kind \in UnaryKinds THEN res_ = UnaryOp_forward(kind, x)
       ELSE kind = "Tanh" => RLe(RAbs(res_), One)
    /\ probe' = [m |-> "Unary", kind |-> kind, x |-> x, res |-> res_, grad |-> grad,
                 sum_grad |-> sum_grad,
                 out |-> UnaryOp_backward(kind, x, res_, grad, sum_grad)]
    /\ UNCHANGED <<tensors, nextGradId, call, res, updates, conc>>

BinaryBackward(kind, lhs, rhs, grad, lhs_sum_grad, rhs_sum_grad) ==
    /\ probe.m = "None"
    /\ BinaryDefined(kind, lhs, rhs)
    /\ LET r == BinaryOp_forward(kind, "lhs_rhs", lhs, rhs)
       IN  probe' = [m |-> "Binary", kind |-> kind, lhs |-> lhs, rhs |-> rhs, res |-> r,
                     grad |-> grad,
                     sum_grad |-> Both(lhs_sum_grad, rhs_sum_grad),
                     out |-> BinaryOp_backward(kind, lhs, rhs, r, grad,
                                               lhs_sum_grad, rhs_sum_grad)]
    /\ UNCHANGED <<tensors, nextGradId, call, res, updates, conc>>

\* the three rules of one cond element, each handed its own accumulator
CondBackward(which, cond, on_true, on_false, grad, sum_grad) ==
    /\ probe.m = "None"
    /\ probe' = [m |-> "Cond", which |-> which, cond |-> cond, on_true |-> on_true,
                 on_false |-> on_false, grad |-> grad, sum_grad |-> sum_grad,
                 out |-> [sum_grad EXCEPT ![which] =
                             Cond_backward(which, cond, on_true, on_false, grad, @)]]
    /\ UNCHANGED <<tensors, nextGradId, call, res, updates, conc>>

\* the sites of powf and of the comparisons, on operands where the rule stays in
\* the model's numbers
SiteDefined(site) ==
    CASE site.m = "Powf" -> PowDefined(site.x, site.n) /\ PowDefined(site.x, RSub(site.n, One))
      [] site.m = "Cmp" ->
            \A kind \in {"Eq", "Le"} : CmpDefined(kind, site.method, site.lhs, site.rhs)
      [] OTHER -> TRUE
LogicVals == {Zero, Half, One}
PowfSites ==
    {PowfSite(x, n, grad) : x \in {Q(-1, 1), Half, One, Two}, n \in PowfInputs, grad \in GradVals}
CmpMethods == {Discret, Linear(Half), Linear(One), Sigmoid(One)}
CmpSites ==
    UNION {{CmpSite(kind, side, method, lhs, rhs, grad) :
                kind \in CmpKinds, side \in {"lhs", "rhs"}, grad \in GradVals} :
           method \in CmpMethods, lhs \in LogicVals, rhs \in LogicVals}

\* one rule applied to one accumulator
SiteBackward(site, sum_grad) ==
    /\ probe.m = "None"
    /\ SiteDefined(site)
    /\ probe' = [m |-> "Site", site |-> site, sum_grad |-> sum_grad,
                 out |-> Backward(site, sum_grad)]
    /\ UNCHANGED <<tensors, nextGradId, call, res, updates, conc>>

\* A variable used at two sites: its accumulator after both rules have been
\* applied, in either order.
AccumSites ==
    {UnarySite("Cubic", Two, Q(8, 1), Q(3, 2)), UnarySite("Neg", One, Q(-1, 1), Half),
     UnarySite("Sqr", Half, Q(1, 4), One), UnarySite("Tanh", Zero, Half, One),
     PowfSite(Two, Two, Q(-1, 1)), PowfSite(Half, Q(-1, 1), One),
     BinarySite("Add", "lhs", One, Two, Half), BinarySite("Sub", "rhs", One, Two, Q(3, 2)),
     BinarySite("Mul", "lhs", Half, Two, Q(3, 2)), BinarySite("Div", "rhs", One, Half, One),
     BinarySite("Max", "lhs", One, One, Half), BinarySite("LogicOr", "rhs", Half, One, One),
     CmpSite("Eq", "lhs", Linear(Half), Zero, Q(1, 4), One),
     CmpSite("Le", "rhs", Linear(One), Half, One, Q(3, 2)),
     CmpSite("Ge", "lhs", Sigmoid(One), One, Zero, One),
     CondSite("cond", Half, Two, Q(-1, 1), Q(3, 2)), CondSite("on_false", Half, One, Zero, One)}

Accumulate(first, second, sum_grad) ==
    /\ probe.m = "None"
    /\ SiteDefined(first) /\ SiteDefined(second)
    /\ \E after_first \in {Backward(first, sum_grad)}, after_second \in {Backward(second, sum_grad)} :
          probe' = [m |-> "Accum", first |-> first, second |-> second, sum_grad |-> sum_grad,
                    out |-> [first_second |-> Backward(second, after_first),
                             second_first |-> Backward(first, after_second)]]
    /\ UNCHANGED <<tensors, nextGradId, call, res, updates, conc>>

NextBackward ==
    \/ Unprobed /\ \E which \in {"cond", "on_true", "on_false"}, cond \in LogicVals,
          on_true \in {Q(-1, 1), Half, Two}, on_false \in {Q(-1, 1), Half, Two},
          grad \in GradVals,
          sum_grad \in [{"cond", "on_true", "on_false"} -> {Zero, Half}] :
            CondBackward(which, cond, on_true, on_false, grad, sum_grad)
    \/ Unprobed /\ \E site \in PowfSites \cup CmpSites, sum_grad \in AccVals : SiteBackward(site, sum_grad)
    \/ Unprobed /\ \E first \in AccumSites, second \in AccumSites, sum_grad \in AccVals :
            Accumulate(first, second, sum_grad)
    \/ Unprobed /\ \E kind \in UnaryBackwardKinds, x \in BackwardVals, r \in BackwardVals,
          grad \in GradVals, sum_grad \in AccVals :
            UnaryBackward(kind, x, r, grad, sum_grad)
    \/ Unprobed /\ \E kind \in BinaryBackwardKinds, lhs \in BackwardVals, rhs \in BackwardVals,
          grad \in GradVals, l \in AccVals, r \in AccVals :
            BinaryBackward(kind, lhs, rhs, grad, l, r)

SpecBackward == Init /\ [][NextBackward]_vars

(* Chains of logic operators.  A comparison produces the first value x; each *)
(* later step applies logic_not, logic_and, logic_or or cond to the two      *)
(* latest values of the chain (x and y) and pushes its result.  failed: an   *)
(* assert_logic! has tripped on an operand.                                  *)
MaxChain == 3

LogicSources ==
    {s \in [kind : CmpKinds, method : ProbeMethods, lhs : ProbeVals, rhs : ProbeVals] :
        CmpDefined(s.kind, s.method, s.lhs, s.rhs)}
CmpResults == {CmpOpT_forward(s.kind, s.method, s.lhs, s.rhs) : s \in LogicSources}

\* the values whose products and sums stay within the model's integers
ChainOperand(v) == v[2] <= IPow(2, 6)
Chaining ==
    /\ probe.m = "Logic" /\ ~probe.failed /\ probe.depth < MaxChain
    /\ ChainOperand(probe.x) /\ ChainOperand(probe.y)
\* the chain after a step: the operands that assert_logic! looks at, and the result
Pushed(checked, value) ==
    IF \A v \in checked : InLogicRange(v)
    THEN [probe EXCEPT !.depth = @ + 1, !.x = value, !.y = probe.x]
    ELSE [probe EXCEPT !.depth = @ + 1, !.failed = TRUE]
Pick(which) == IF which = "x" THEN probe.x ELSE probe.y

\* a.<kind>(b), a.<kind>_linear(b, epsilon), a.<kind>_sigmoid(b, k) at one pair
LogicCmp(s, other) ==
    /\ probe.m = "None"
    /\ probe' = [m |-> "Logic", depth |-> 0, failed |-> FALSE,
                 x |-> CmpOpT_forward(s.kind, s.method, s.lhs, s.rhs), y |-> other]
    /\ UNCHANGED <<tensors, nextGradId, call, res, updates, conc>>

LogicNotStep(a) ==
    /\ Chaining
    /\ probe' = Pushed({Pick(a)}, LogicNot_forward(Pick(a)))
    /\ UNCHANGED <<tensors, nextGradId, call, res, updates, conc>>

LogicBinaryStep(kind, a, b) ==
    /\ Chaining
    /\ probe' = Pushed({Pick(a), Pick(b)}, forward_lhs_rhs(kind, Pick(a), Pick(b)))
    /\ UNCHANGED <<tensors, nextGradId, call, res, updates, conc>>

LogicCondStep(c, a, b) ==
    /\ Chaining
    /\ probe' = Pushed({Pick(c)}, Cond_forward(Pick(c), Pick(a), Pick(b)))
    /\ UNCHANGED <<tensors, nextGradId, call, res, updates, conc>>

NextLogic ==
    \/ Unprobed /\ \E s \in LogicSources, other \in CmpResults : LogicCmp(s, other)
    \/ \E a \in {"x", "y"} : LogicNotStep(a)
    \/ \E kind \in {"LogicAnd", "LogicOr"}, a \in {"x", "y"}, b \in {"x", "y"} :
            LogicBinaryStep(kind, a, b)
    \/ \E c \in {"x", "y"}, a \in {"x", "y"}, b \in {"x", "y"} : LogicCondStep(c, a, b)

SpecLogic == Init /\ [][NextLogic]_vars

---------------------------------------------------------------------------
(* Properties.  They read the finished call: call (with the tensors as     *)
(* they were when it was made), res and the tensors as they are now.       *)

Called(fams) == call.fam \in fams
TensorArgs == {i \in DOMAIN call.args : call.args[i].k = "Tensor"}
ArgTensor(i) == call.pre[call.args[i].t]
AllConstArgs == TensorArgs = {}
SomeArgTracks == \E i \in TensorArgs : with_grad(ArgTensor(i))
Built == res.k = "Tensor" /\ res.node
Node == tensors[res.t]
ArgLens == {Len(ArgTensor(i).vals) : i \in TensorArgs}

\* the result "is" the operand x: the same constant, or the same tensor shared
ResultIs(x) ==
    IF x.k = "Const" THEN res.k = "Const" /\ res.v = x.v
    ELSE res.k = "Tensor" /\ ~res.node /\ res.t = x.t

\* the result equals the operand x element by element
ResultElemEq(x) ==
    CASE res.k = "Const" -> x.k = "Const" /\ res.v = x.v
      [] res.k = "Tensor" ->
            \A i \in DOMAIN tensors[res.t].vals :
                tensors[res.t].vals[i] = ElemAt(call.pre, x, i)
      [] OTHER -> FALSE

\* the relation a comparison kind stands for
Rel(kind, a, b) ==
    CASE kind = "Eq" -> a = b
      [] kind = "Ne" -> a # b
      [] kind = "Le" -> RLe(a, b)
      [] kind = "Ge" -> RLe(b, a)
      [] kind = "Lt" -> RLt(a, b)
      [] kind = "Gt" -> RLt(b, a)

\* C1: a unary, binary, power or cond operator that builds a node gives it a
\* gradient identity exactly when at least one of its tensor operands has one
\* (Const operands never count), and that identity is new: no tensor that
\* existed before the call carries it.
C1_FreshIdentityIff ==
    (Called({"Unary", "Powf", "Binary", "Cond"}) /\ Built) =>
        /\ with_grad(Node) <=> SomeArgTracks
        /\ with_grad(Node) => \A j \in DOMAIN call.pre : call.pre[j].grad # Node.grad

C1_Witness ==
    /\ Called({"Cond"}) /\ Built /\ with_grad(Node)
    /\ \E i \in DOMAIN call.args : call.args[i].k = "Const"
    /\ \E i \in TensorArgs : ~with_grad(ArgTensor(i))
    /\ \E i \in TensorArgs : with_grad(ArgTensor(i))

\* C2: a comparison computes its values with the requested method only when
\* that method is differentiable and at least one tensor operand tracks
\* gradients; otherwise the values are the Discrete 0/1 values of the relation
\* and the result has no gradient identity.
C2_CmpMethodGating ==
    Called({"Cmp"}) =>
        IF differentiable(call.method) /\ SomeArgTracks
        THEN /\ Built /\ with_grad(Node)
             /\ \A i \in DOMAIN Node.vals :
                    Node.vals[i] = CmpOpT_forward(call.kind, call.method,
                                                  ElemAt(call.pre, call.args[1], i),
                                                  ElemAt(call.pre, call.args[2], i))
        ELSE /\ nextGradId = call.preId
             /\ IF AllConstArgs
                THEN res.k = "Const"
                     /\ res.v = Bit(Rel(call.kind, call.args[1].v, call.args[2].v))
                ELSE /\ Built /\ ~with_grad(Node)
                     /\ \A i \in DOMAIN Node.vals :
                            Node.vals[i] = Bit(Rel(call.kind,
                                                   ElemAt(call.pre, call.args[1], i),
                                                   ElemAt(call.pre, call.args[2], i)))

\* a differentiable method is requested, no operand tracks gradients, and the
\* requested method would have given another value
C2_Witness ==
    /\ Called({"Cmp"}) /\ differentiable(call.method) /\ ~AllConstArgs /\ ~SomeArgTracks
    /\ Built /\ ~with_grad(Node)
    /\ \E i \in DOMAIN Node.vals :
           Node.vals[i] # CmpOpT_forward(call.kind, call.method,
                                         ElemAt(call.pre, call.args[1], i),
                                         ElemAt(call.pre, call.args[2], i))

\* C3: a binary operator on two tensors of different lengths ends in the
\* "tensor length mismatch" panic: no result, and the tensors are as before.
C3_BinaryShapeMismatchFatal ==
    (Called({"Binary"}) /\ TensorArgs = {1, 2} /\ Cardinality(ArgLens) > 1) =>
        /\ res.k = "Panic" /\ res.why = "shape"
        /\ tensors = call.pre

C3_Witness ==
    /\ Called({"Binary"}) /\ TensorArgs = {1, 2}
    /\ Len(ArgTensor(1).vals) < Len(ArgTensor(2).vals)
    /\ res.k = "Panic" /\ res.why = "shape"

\* C4: cond with two or three tensor operands of which two differ in length
\* ends in a panic.  Stated for a tensor cond, where the operator has to
\* combine the operands element by element.
C4_CondShapeMismatchFatal ==
    (Called({"Cond"}) /\ 1 \in TensorArgs /\ Cardinality(ArgLens) > 1) =>
        res.k = "Panic"

\* C5: a comparison of two tensors of different lengths ends in a panic.
C5_CmpShapeMismatchFatal ==
    (Called({"Cmp"}) /\ TensorArgs = {1, 2} /\ Cardinality(ArgLens) > 1) =>
        res.k = "Panic"

\* C6: an operator that builds a node from at least one tensor operand gives
\* it the length of each of its tensor operands.
C6_ResultLength ==
    Built => \A i \in TensorArgs : Len(Node.vals) = Len(ArgTensor(i).vals)

\* the forward rule of the call applied to its Const operands
ScalarForward ==
    CASE call.fam = "Unary" -> UnaryOp_forward(call.kind, call.args[1].v)
      [] call.fam = "Powf" -> Powf_forward(call.args[1].v, call.n)
      [] call.fam = "Binary" -> forward_lhs_rhs(call.kind, call.args[1].v, call.args[2].v)
      [] call.fam = "Cmp" -> Bit(Rel(call.kind, call.args[1].v, call.args[2].v))
      [] call.fam = "Cond" ->
            RAdd(RMul(call.args[1].v, call.args[2].v),
                 RMul(RSub(One, call.args[1].v), call.args[3].v))

\* C7: an operator whose operands are all Const returns a Const holding the
\* forward rule's value; it creates no tensor (hence records no Op) and mints
\* no gradient identity.
C7_AllConstStaysConst ==
    (~Called({"None"}) /\ AllConstArgs) =>
        /\ res.k = "Const" /\ res.v = ScalarForward
        /\ tensors = call.pre
        /\ nextGradId = call.preId

\* a cond with a fractional Const cond and two different Const branches, made
\* while a gradient-tracking tensor exists
C7_Witness ==
    /\ Called({"Cond"}) /\ AllConstArgs /\ res.k = "Const"
    /\ call.args[1].v = Half /\ call.args[2].v # call.args[3].v
    /\ \E j \in DOMAIN tensors : with_grad(tensors[j])

\* C8: cond with a Const cond builds no node: it returns on_false when the
\* cond is exactly zero and on_true for every other value, Const branches and
\* a cond strictly between 0 and 1 included.
C8_ConstCondSelects ==
    (Called({"Cond"}) /\ call.args[1].k = "Const") =>
        IF RIsZero(call.args[1].v) THEN ResultIs(call.args[3]) ELSE ResultIs(call.args[2])

CondAll(v) ==
    IF call.args[1].k = "Const" THEN call.args[1].v = v
    ELSE \A i \in DOMAIN ArgTensor(1).vals : ArgTensor(1).vals[i] = v

C10_Complements ==
    probe.m = "Cmp" =>
        /\ RAdd(probe.out["Le"], probe.out["Gt"]) = One
        /\ RAdd(probe.out["Lt"], probe.out["Ge"]) = One

\* C11: for one pair of operands and one method, the value returned by ne is
\* exactly 1 minus the value returned by eq.
C11_NeIsOneMinusEq ==
    probe.m = "Cmp" => probe.out["Ne"] = RSub(One, probe.out["Eq"])

\* C12: eq_linear is 1 at a = b, is 1 - |a-b|/eps (as f64 evaluates it) for
\* |a-b| < eps and exactly 0 for |a-b| >= eps; le_linear is 0.5 at a = b,
\* exactly 1 for a-b < -eps and exactly 0 for a-b > eps.
C12_LinearShape ==
    (probe.m = "Cmp" /\ probe.method.m = "Linear") =>
        LET eps == probe.method.p
            d == FSub(probe.lhs, probe.rhs)
        IN  /\ probe.lhs = probe.rhs => probe.out["Eq"] = One /\ probe.out["Le"] = Half
            /\ RLt(RAbs(d), eps) => probe.out["Eq"] = FSub(One, FDiv(RAbs(d), eps))
            /\ RLe(eps, RAbs(d)) => probe.out["Eq"] = Zero
            /\ RLt(d, RNeg(eps)) => probe.out["Le"] = One
            /\ RLt(eps, d) => probe.out["Le"] = Zero

\* a Linear comparison of two different operands exactly one band apart
C12_Witness ==
    /\ probe.m = "Cmp" /\ probe.method.m = "Linear"
    /\ RAbs(RSub(probe.lhs, probe.rhs)) = probe.method.p
    /\ probe.out["Eq"] = Zero

\* What an operand of min or max is owed: the whole upstream gradient when it
\* alone attains the result, half of it on a tie, nothing otherwise.
Owed(own, other, r, grad) ==
    IF own = r /\ other = r THEN RDiv(grad, Two)
    ELSE IF own = r THEN grad
    ELSE Zero

\* C13: for min and max, backward adds the full upstream gradient to the
\* accumulator of the operand that attains the result and nothing to the other,
\* half to each when lhs and rhs are exactly equal; the two contributions sum to
\* the upstream gradient.
C13_MinMaxBackward ==
    (probe.m = "Binary" /\ probe.kind \in {"Min", "Max"}) =>
        LET l == Owed(probe.lhs, probe.rhs, probe.res, probe.grad)
            r == Owed(probe.rhs, probe.lhs, probe.res, probe.grad)
        IN  /\ probe.out.lhs = FAdd(probe.sum_grad.lhs, l)
            /\ probe.out.rhs = FAdd(probe.sum_grad.rhs, r)
            /\ (probe.sum_grad.lhs = Zero /\ probe.sum_grad.rhs = Zero) =>
                   RAdd(probe.out.lhs, probe.out.rhs) = probe.grad

C13_Witness ==
    /\ probe.m = "Binary" /\ probe.kind = "Min"
    /\ probe.lhs = probe.rhs
    /\ probe.sum_grad.lhs = Zero /\ probe.sum_grad.rhs = Zero
    /\ probe.out.lhs = RDiv(probe.grad, Two) /\ probe.out.rhs = probe.out.lhs

\* C16: the backward rule of floor, ceil, round and sign leaves the gradient
\* accumulator exactly as it was, whatever the input, the result and the
\* upstream gradient, and emits a diagnostic; it returns to its caller.
C16_NotSupportedFrame ==
    (probe.m = "Unary" /\ probe.kind \in {"Floor", "Ceil", "Round", "Sign"}) =>
        /\ probe.out.sum_grad = probe.sum_grad
        /\ probe.out.log # ""

C16_Witness ==
    /\ probe.m = "Unary" /\ probe.kind = "Ceil"
    /\ probe.grad = One /\ probe.sum_grad = Half
    /\ probe.out = [sum_grad |-> Half, log |-> "BackwardNotSupported Ceil"]

\* C17: the backward rule of tan adds upstream_grad * (1 + result^2) to the
\* accumulator, result being the cached forward output; the added contribution
\* has the sign of the upstream gradient.
C17_TanBackward ==
    (probe.m = "Unary" /\ probe.kind = "Tan") =>
        LET contribution == FMul(probe.grad, FAdd(One, FMul(probe.res, probe.res)))
        IN  /\ probe.out.sum_grad = FAdd(probe.sum_grad, contribution)
            /\ RSignum(RSub(probe.out.sum_grad, probe.sum_grad)) = RSignum(probe.grad)

\* C18: logic_not has forward value 1 - x, and its backward rule adds
\* -upstream_grad to the accumulator, whatever the input x in [0,1].
C18_LogicNotBackward ==
    (probe.m = "Unary" /\ probe.kind = "LogicNot" /\ InLogicRange(probe.x)) =>
        /\ probe.res = FSub(One, probe.x)
        /\ probe.out.sum_grad = FSub(probe.sum_grad, probe.grad)

\* C14: after update(tensor, new_values) has returned, reading the tensor
\* through any holder, the handle or an expression sharing it, yields new_values,
\* and the tensor's change marker is marked.
C14_UpdateVisible ==
    updates # <<>> =>
        LET u == updates[Len(updates)]
            read == Expression_value(tensors, TensorExpr(u.t))
        IN  read.vals = u.values /\ read.changed

C14_Witness ==
    /\ Len(tensors) >= 2
    /\ updates # <<>> /\ updates[1] = [t |-> 1, values |-> Mixed(MaxLen)]
    /\ Expression_value(tensors, TensorExpr(1)).vals = Mixed(MaxLen)
    /\ tensors[1].changed /\ ~tensors[2].changed

\* C15: no operator call, whether it returns a result or fails, changes an
\* operand: values, length, gradient identity and change marker of every tensor
\* that existed before the call are what they were.
C15_OperandsUntouched ==
    ~Idle => \A t \in DOMAIN call.pre : tensors[t] = call.pre[t]

C15_Witness ==
    /\ res.k = "Panic"
    /\ Cardinality(TensorArgs) >= 2
    /\ \A i \in TensorArgs : tensors[call.args[i].t] = ArgTensor(i)

\* C19: a smoothed comparison whose epsilon or k is zero or negative is
\* rejected by the parameter check and produces no result; only epsilon > 0 and
\* k > 0 reach the forward computation.
C19_NonPositiveRejected ==
    probe.m = "Smoothed" =>
        /\ ~RLt(Zero, probe.p.v) => probe.method.m = "Panic" /\ probe.out = <<>>
        /\ probe.method.m # "Panic" => RLt(Zero, probe.p.v)

\* the buffers tensors[t] has held: the one it started with and every one an
\* update gave it
Versions(t) == {ConcTensors[t].vals} \cup {updates[k].values : k \in {j \in DOMAIN updates : updates[j].t = t}}

\* C20: a forward pass that ran while updates were made on its operands has
\* computed every element from one version of each operand buffer: the result is
\* the forward rule applied to a whole buffer the tensor held, never to a mix
\* of elements of an old and a new buffer.
C20_SingleVersion ==
    conc.rd.pc = "done" =>
        IF conc.rd.fam = "Unary"
        THEN \E v \in Versions(conc.rd.a) :
                conc.rd.out = [i \in DOMAIN v |-> Neg_forward(v[i])]
        ELSE \E v \in Versions(conc.rd.a), w \in Versions(conc.rd.b) :
                /\ conc.rd.a = conc.rd.b => v = w
                /\ Len(v) = Len(w)
                /\ conc.rd.out = [i \in DOMAIN v |-> Sub_forward(v[i], w[i])]

C20_Witness ==
    /\ conc.rd = [pc |-> "done", fam |-> "Binary", a |-> 1, b |-> 2,
                  out |-> [i \in 1..MaxLen |-> Sub_forward(Zero, Mixed(MaxLen)[i])]]
    /\ updates = <<[t |-> 2, values |-> Mixed(MaxLen)]>>
    /\ tensors[2].changed

\* C22: a tensor's length is fixed at creation: no update changes the length of
\* the buffer of a tensor that exists.
C22_LengthFixed ==
    [][\A t \in DOMAIN tensors : Len(tensors'[t].vals) = Len(tensors[t].vals)]_vars


\* what the rule of a site adds to an accumulator: its result on an empty one
Contribution(site) == Backward(site, Zero)
\* the f64 addition a + b is the exact sum
ExactSum(a, b) == FAdd(a, b) = RAdd(a, b)

\* C24 as stated: a variable used at two sites ends with the initial accumulator
\* plus the sum of both sites' contributions, whatever the order in which the two
\* backward rules are applied.
C24_OrderIndependent ==
    probe.m = "Accum" =>
        /\ probe.out.first_second = probe.out.second_first
        /\ probe.out.first_second =
               RAdd(probe.sum_grad, RAdd(Contribution(probe.first), Contribution(probe.second)))

\* C24 amended: every differentiable backward rule replaces its accumulator by
\* the f64 sum of the accumulator and a contribution that does not depend on
\* the accumulator; when none of the additions rounds, the accumulator of a
\* variable used at two sites ends as the initial value plus the sum of both
\* contributions in either order.
C24_Additive ==
    /\ probe.m = "Site" =>
           probe.out = FAdd(probe.sum_grad, Contribution(probe.site))
    /\ (probe.m = "Unary" /\ probe.out.log = "") =>
           probe.out.sum_grad =
               FAdd(probe.sum_grad,
                    UnaryOp_backward(probe.kind, probe.x, probe.res, probe.grad, Zero).sum_grad)
    /\ probe.m = "Binary" =>
           LET c == BinaryOp_backward(probe.kind, probe.lhs, probe.rhs, probe.res, probe.grad,
                                      Zero, Zero)
           IN  /\ probe.out.lhs = FAdd(probe.sum_grad.lhs, c.lhs)
               /\ probe.out.rhs = FAdd(probe.sum_grad.rhs, c.rhs)
    /\ probe.m = "Cond" =>
           probe.out[probe.which] =
               FAdd(probe.sum_grad[probe.which],
                    Cond_backward(probe.which, probe.cond, probe.on_true, probe.on_false,
                                  probe.grad, Zero))
    /\ probe.m = "Accum" =>
           LET c1 == Contribution(probe.first)
               c2 == Contribution(probe.second)
           IN  /\ probe.out.first_second = FAdd(FAdd(probe.sum_grad, c1), c2)
               /\ probe.out.second_first = FAdd(FAdd(probe.sum_grad, c2), c1)
               /\ (/\ ExactSum(probe.sum_grad, c1) /\ ExactSum(RAdd(probe.sum_grad, c1), c2)
                   /\ ExactSum(probe.sum_grad, c2) /\ ExactSum(RAdd(probe.sum_grad, c2), c1)) =>
                      /\ probe.out.first_second = RAdd(probe.sum_grad, RAdd(c1, c2))
                      /\ probe.out.second_first = probe.out.first_second

\* powf at x = 2, n = 2 with upstream gradient -1 and a cond rule with upstream
\* gradient 3/2 on a variable whose accumulator starts at 1/2
C24_Witness ==
    /\ probe.m = "Accum"
    /\ probe.first = PowfSite(Two, Two, Q(-1, 1))
    /\ probe.second = CondSite("cond", Half, Two, Q(-1, 1), Q(3, 2))
    /\ probe.sum_grad = Half
    /\ probe.out.first_second = One
    /\ probe.out.second_first = One

\* C25: the cond backward rules add upstream_grad * (on_true - on_false) to the
\* cond accumulator, upstream_grad * cond to the on_true accumulator and
\* upstream_grad * (1 - cond) to the on_false accumulator, each leaving the
\* other two accumulators as they were.
C25_CondBackward ==
    probe.m = "Cond" =>
        LET added == [cond |-> FMul(probe.grad, FSub(probe.on_true, probe.on_false)),
                      on_true |-> FMul(probe.grad, probe.cond),
                      on_false |-> FMul(probe.grad, FSub(One, probe.cond))]
        IN  \A acc \in {"cond", "on_true", "on_false"} :
                probe.out[acc] = IF acc = probe.which
                                 THEN FAdd(probe.sum_grad[acc], added[acc])
                                 ELSE probe.sum_grad[acc]

C25_Witness ==
    /\ probe.m = "Cond" /\ probe.which = "on_false"
    /\ probe.cond = Zero /\ probe.grad = Q(3, 2)
    /\ probe.sum_grad = [cond |-> Zero, on_true |-> Half, on_false |-> Half]
    /\ probe.out = [cond |-> Zero, on_true |-> Half, on_false |-> Two]


\* a tensor of the given length holding the scalar c at every element
Replicated(c, n) == [vals |-> [i \in 1..n |-> c]]

\* C26: scalar-versus-tensor broadcasting keeps the operand order: Const(c) op t
\* has element i equal to forward(c, t[i]), t op Const(c) has forward(t[i], c),
\* and each is the tensor-tensor result with the scalar replicated.
C26_BroadcastOrder ==
    (call.fam = "Binary" /\ res.k = "Tensor" /\ res.node) =>
        LET lhs == call.args[1]
            rhs == call.args[2]
            out == tensors[res.t].vals
            fn == FnBinary(call.kind, "lhs_rhs")
        IN  /\ (lhs.k = "Const" /\ rhs.k = "Tensor") =>
                   LET t == call.pre[rhs.t]
                   IN  /\ Len(out) = Len(t.vals)
                       /\ \A i \in 1..Len(out) :
                              out[i] = forward_lhs_rhs(call.kind, lhs.v, t.vals[i])
                       /\ out = Tensor_iter_binary_op(Replicated(lhs.v, Len(t.vals)), t,
                                                      fn, FALSE).vals
            /\ (lhs.k = "Tensor" /\ rhs.k = "Const") =>
                   LET t == call.pre[lhs.t]
                   IN  /\ Len(out) = Len(t.vals)
                       /\ \A i \in 1..Len(out) :
                              out[i] = forward_lhs_rhs(call.kind, t.vals[i], rhs.v)
                       /\ out = Tensor_iter_binary_op(t, Replicated(rhs.v, Len(t.vals)),
                                                      fn, FALSE).vals

\* Const(1) - t on t = [1/2, 2] is [1/2, -1]
C26_Witness ==
    /\ call.fam = "Binary" /\ call.kind = "Sub"
    /\ call.args[1] = Const(One) /\ call.args[2].k = "Tensor"
    /\ call.pre[call.args[2].t].vals = <<Half, Two>>
    /\ res.k = "Tensor" /\ res.node
    /\ tensors[res.t].vals = <<Half, Q(-1, 1)>>


\* C27: a comparison node records in its Op the method its values were computed
\* with, not the requested one: the recorded method is non-Discrete exactly
\* when the node carries a gradient identity.
C27_RecordedMethod ==
    (Called({"Cmp"}) /\ Built) =>
        /\ Node.op.fam = "Cmp" /\ Node.op.kind = call.kind
        /\ Node.op.method \in {Discret, call.method}
        /\ Node.op.method # Discret <=> with_grad(Node)
        /\ \A i \in DOMAIN Node.vals :
               Node.vals[i] = CmpOpT_forward(call.kind, Node.op.method,
                                             ElemAt(call.pre, call.args[1], i),
                                             ElemAt(call.pre, call.args[2], i))

\* Linear is requested on operands that do not track gradients: Discret is
\* recorded, and Linear would have given another value
C27_Witness ==
    /\ Called({"Cmp"}) /\ Built /\ call.method = Linear(One)
    /\ Node.op.method = Discret /\ ~with_grad(Node)
    /\ \E i \in DOMAIN Node.vals :
           Node.vals[i] # CmpOpT_forward(call.kind, Linear(One),
                                         ElemAt(call.pre, call.args[1], i),
                                         ElemAt(call.pre, call.args[2], i))


\* C30: logic values stay in [0,1]: every comparison result under Discret,
\* Linear (epsilon > 0) and Sigmoid (k > 0) lies in [0,1], and logic_not,
\* logic_and, logic_or and cond on such values give values in [0,1], so no
\* range check fails along a chain of these operators.
C30_LogicRange ==
    probe.m = "Logic" =>
        /\ ~probe.failed
        /\ InLogicRange(probe.x) /\ InLogicRange(probe.y)


\* a chain of three operators on a comparison result, ending in two different
\* values strictly between 0 and 1
C30_Witness ==
    /\ probe.m = "Logic" /\ probe.depth = 3 /\ ~probe.failed
    /\ RLt(Zero, probe.y) /\ RLt(probe.y, probe.x) /\ RLt(probe.x, One)


\* C23: once an Operation node has been built its values never change: no
\* later update, of a Parameter it was computed from or through the tensor that
\* value(expression) returns, replaces the node's buffer.
C23_NodeImmutable ==
    [][\A t \in DOMAIN tensors :
           tensors[t].op # Op_Assgin => tensors'[t].vals = tensors[t].vals]_vars

\* the branch a Const cond selects
Selected == IF RIsZero(call.args[1].v) THEN call.args[3] ELSE call.args[2]
Unselected == IF RIsZero(call.args[1].v) THEN call.args[2] ELSE call.args[3]
\* the updates made on tensors[t], by their place in the log
UpdatesOf(t) == {i \in DOMAIN updates : updates[i].t = t}
Latest(is) == CHOOSE i \in is : \A j \in is : j <= i

C28_MarkedUnderWriteLock ==
    \A t \in DOMAIN tensors :
        (UpdatesOf(t) # {} /\ ~tensors[t].changed) =>
            conc.lock[t].writer /\ conc.lock[t].readers = 0

\* a pass holds the read guard of a tensor whose update has returned: it reads
\* the new buffer and the marker is marked
C28_Witness ==
    /\ conc.rd.pc = "iter" /\ conc.rd.fam = "Unary" /\ conc.rd.a = 1
    /\ conc.lock[1].readers = 1 /\ conc.wr[1] = "idle"
    /\ updates = <<[t |-> 1, values |-> Mixed(MaxLen)]>>
    /\ conc.rd.out = <<Neg_forward(Mixed(MaxLen)[1])>>
    /\ tensors[1].changed


\* C21: under every interleaving of operator calls and update calls, every call
\* that has been made completes: an operator call returns (or unwinds), an
\* update returns; no thread waits forever for a lock.
C21_EveryCallCompletes ==
    /\ \A r \in Readers :
           (conc.rds[r].pc \notin {"idle", "done", "panic"}) ~>
               (conc.rds[r].pc \in {"done", "panic"})
    /\ \A t \in DOMAIN ConcTensors : (conc.wr[t] = "waiting") ~> (conc.wr[t] = "idle")

===========================================================================
